---------------------------- MODULE Spec2Model ----------------------------
(***************************************************************************)
(* Model of the chain database provider                                    *)
(* (crates/storage/provider/src/providers/database/provider.rs).           *)
(*                                                                         *)
(* The state is the set of key-value tables one read-write provider        *)
(* transaction sees.  A table is a function whose DOMAIN is the set of     *)
(* keys present.  Duplicate-sorted tables whose duplicates can share a     *)
(* subkey (PlainStorageState, HashedStorages) are sets of                  *)
(* <<key, subkey, value>> rows.  Every handler is an operator from a       *)
(* database record to a database record; an action applies one handler.    *)
(***************************************************************************)
EXTENDS Integers, Sequences, FiniteSets, TLC

\* ------------------------------------------------------------------ bounds
\* Highest block number an append may reach.
MaxBlock == 2
\* Highest block number in the history-index specification.
MaxHistoryBlock == 4
\* Longest run of blocks one append_blocks_with_state call inserts.
MaxAppend == 2
\* Most transactions in one block.
MaxTxCount == 2
\* Shard size; the program's value is 2000 (reth_db sharded_key), scaled down.
NUM_OF_INDICES_IN_SHARD == 2

\* u64::MAX, the key of the open shard.  Only its order matters: it is above
\* every block number of the model.
U64_MAX == 1000000

Addresses == {1, 2}
\* The storage keys <<address, slot>> the blocks write to.
StorageKeys == {<<1, 1>>}
\* Account values (an abstraction of nonce, balance and code hash).
AccountValues == {1, 2}
\* Storage values; 0 is U256::ZERO.
StorageValues == {0, 1, 2}
\* Header contents beyond the fields the model tracks.
Salts == {0, 1}

\* ----------------------------------------------------------------- options
None == <<>>
Some(x) == <<x>>
IsSome(o) == Len(o) = 1
IsNone(o) == Len(o) = 0
Unwrap(o) == o[1]

\* ------------------------------------------------------------------ tables
EmptyTable == <<>>
Get(t, k) == IF k \in DOMAIN t THEN Some(t[k]) ELSE None
Put(t, k, v) == [x \in (DOMAIN t) \cup {k} |-> IF x = k THEN v ELSE t[x]]
Delete(t, k) == [x \in (DOMAIN t) \ {k} |-> t[x]]
DeleteKeys(t, K) == [x \in (DOMAIN t) \ K |-> t[x]]

Min(S) == CHOOSE x \in S : \A y \in S : x <= y
Max(S) == CHOOSE x \in S : \A y \in S : y <= x

RECURSIVE SortedSeq(_)
SortedSeq(S) == IF S = {} THEN <<>> ELSE <<Min(S)>> \o SortedSeq(S \ {Min(S)})

RECURSIVE Concat(_)
Concat(ss) == IF ss = <<>> THEN <<>> ELSE Head(ss) \o Concat(Tail(ss))


\* keccak256 on addresses and slot keys: injective, not order preserving.
keccak256(x) == 100 + ((x * 3) % 5)


\* ---------------------------------------------------- sharded-index engine
\* A partial key is <<address>> (AccountsHistory) or <<address, slot>>
\* (StoragesHistory); a sharded key is <<partial key, highest_block_number>>.
\* Tables are walked in the lexicographic order of their keys.
RECURSIVE LexLess(_, _)
LexLess(p, q) ==
    IF p = <<>> \/ q = <<>> THEN p = <<>> /\ q /= <<>>
    ELSE IF Head(p) /= Head(q) THEN Head(p) < Head(q)
    ELSE LexLess(Tail(p), Tail(q))

ShardedKey(p, highest) == <<p, highest>>
ShardedKeyLast(p) == ShardedKey(p, U64_MAX)
ShardedKeyLess(k1, k2) == LexLess(k1[1], k2[1]) \/ (k1[1] = k2[1] /\ k1[2] < k2[2])

RECURSIVE SortedKeys(_)
SortedKeys(S) ==
    IF S = {} THEN <<>>
    ELSE LET m == CHOOSE x \in S : \A y \in S : x = y \/ LexLess(x, y)
         IN  <<m>> \o SortedKeys(S \ {m})

\* DbCursorRO::prev after delete_current of `key`: the row before it.
\* A cursor that finds nothing before the shard just deleted.
NoPrev(table, key) == None

CursorPrev(table, key) ==
    LET below == {k \in DOMAIN table : ShardedKeyLess(k, key)}
    IN  IF below = {} THEN None
        ELSE Some(CHOOSE k \in below : \A j \in below : j = k \/ ShardedKeyLess(j, k))

\* A cut that keeps the index equal to n.
TakeWhileNotAbove(list, n) == SelectSeq(list, LAMBDA i : i <= n)

RECURSIVE TakeWhileLess(_, _)
TakeWhileLess(list, n) ==
    IF list = <<>> \/ ~(Head(list) < n) THEN <<>>
    ELSE <<Head(list)>> \o TakeWhileLess(Tail(list), n)

\* unwind_history_shards: the loop from the cursor position `item`.
\* Result: the table after the deletions, the boundary shard, and whether
\* the `expect("List can't be empty")` fired.
RECURSIVE unwind_history_shards_loop(_, _, _, _)
unwind_history_shards_loop(table, item, block_number, partial_key) ==
    IF IsNone(item) THEN [table |-> table, shard |-> <<>>, panic |-> FALSE]
    ELSE
      LET sharded_key == Unwrap(item)
          list == table[sharded_key]
          deleted == Delete(table, sharded_key)
      IN  IF sharded_key[1] /= partial_key
            THEN [table |-> table, shard |-> <<>>, panic |-> FALSE]
          ELSE IF list = <<>>
            THEN [table |-> deleted, shard |-> <<>>, panic |-> TRUE]
          ELSE IF Head(list) >= block_number
            THEN unwind_history_shards_loop(deleted, CursorPrev(deleted, sharded_key),
                                            block_number, partial_key)
          ELSE IF block_number <= sharded_key[2]
            THEN [table |-> deleted, shard |-> TakeWhileLess(list, block_number),
                  panic |-> FALSE]
          ELSE [table |-> deleted, shard |-> list, panic |-> FALSE]

\* An unwind of the shards that returns the boundary shard and leaves the
\* rows in the table.
UnwindHistoryShardsWithoutDelete(table, start_key, block_number, partial_key) ==
    [unwind_history_shards_loop(table,
         IF start_key \in DOMAIN table THEN Some(start_key) ELSE None,
         block_number, partial_key) EXCEPT !.table = table]

unwind_history_shards(table, start_key, block_number, partial_key) ==
    unwind_history_shards_loop(table,
        IF start_key \in DOMAIN table THEN Some(start_key) ELSE None,
        block_number, partial_key)

\* ------------------------------------------------------------------------
\* One iteration of the callers' loop (unwind_account_history_indices,
\* unwind_storage_history_indices): unwind the key, then cursor.insert the
\* boundary shard under ShardedKey::last when it is not empty.  cursor.insert
\* fails on an existing key.
\* An unwind that drops the boundary shard instead of reinserting it.
UnwindHistoryKeyWithoutReinsert(table, partial_key, rem_index) ==
    LET r == unwind_history_shards(table, ShardedKeyLast(partial_key), rem_index, partial_key)
    IN  IF r.panic THEN [table |-> r.table, result |-> "Panic"]
        ELSE [table |-> r.table, result |-> "Ok"]

UnwindHistoryKey(table, partial_key, rem_index) ==
    LET r == unwind_history_shards(table, ShardedKeyLast(partial_key), rem_index, partial_key)
    IN  IF r.panic THEN [table |-> r.table, result |-> "Panic"]
        ELSE IF r.shard = <<>> THEN [table |-> r.table, result |-> "Ok"]
        ELSE IF ShardedKeyLast(partial_key) \in DOMAIN r.table
          THEN [table |-> r.table, result |-> "KeyExists"]
        ELSE [table |-> Put(r.table, ShardedKeyLast(partial_key), r.shard), result |-> "Ok"]

\* The callers' loop over the changeset rows, sorted by key (stable: block
\* numbers ascend within a key).  `rows` is a sequence of <<partial key, block>>.
RECURSIVE UnwindHistoryRows(_, _)
UnwindHistoryRows(table, rows) ==
    IF rows = <<>> THEN [table |-> table, result |-> "Ok"]
    ELSE LET r == UnwindHistoryKey(table, Head(rows)[1], Head(rows)[2])
         IN  IF r.result /= "Ok" THEN r ELSE UnwindHistoryRows(r.table, Tail(rows))

\* take_shard: load the shard and remove it.
take_shard(table, key) ==
    IF key \in DOMAIN table
      THEN [table |-> Delete(table, key), list |-> table[key]]
      ELSE [table |-> table, list |-> <<>>]

\* Itertools::chunks(n).
\* Chunks of n + 1.
ChunksOfOneMore(list, n) ==
    LET RECURSIVE Go(_)
        Go(l) == IF l = <<>> THEN <<>>
                 ELSE IF Len(l) <= n + 1 THEN <<l>>
                 ELSE <<SubSeq(l, 1, n + 1)>> \o Go(SubSeq(l, n + 2, Len(l)))
    IN  Go(list)

RECURSIVE Chunks(_, _)
Chunks(list, n) ==
    IF list = <<>> THEN <<>>
    ELSE IF Len(list) <= n THEN <<list>>
    ELSE <<SubSeq(list, 1, n)>> \o Chunks(SubSeq(list, n + 1, Len(list)), n)

RECURSIVE PutChunks(_, _, _)
PutChunks(table, partial_key, chunks) ==
    IF chunks = <<>> THEN table
    ELSE LET list == Head(chunks)
             highest_block_number ==
                 IF Tail(chunks) /= <<>> THEN list[Len(list)] ELSE U64_MAX
         IN  PutChunks(Put(table, ShardedKey(partial_key, highest_block_number), list),
                       partial_key, Tail(chunks))

\* append_history_index; index_updates is a function partial key -> indices.
RECURSIVE append_history_index_loop(_, _, _)
append_history_index_loop(table, index_updates, keys) ==
    IF keys = <<>> THEN table
    ELSE LET partial_key == Head(keys)
             last_shard == take_shard(table, ShardedKeyLast(partial_key))
             indices == last_shard.list \o index_updates[partial_key]
         IN  append_history_index_loop(
                 PutChunks(last_shard.table, partial_key,
                           Chunks(indices, NUM_OF_INDICES_IN_SHARD)),
                 index_updates, Tail(keys))

append_history_index(table, index_updates) ==
    append_history_index_loop(table, index_updates, SortedKeys(DOMAIN index_updates))


\* ------------------------------------------------------------------- state
VARIABLES
    CanonicalHeaders,            \* BlockNumber -> BlockHash
    Headers,                     \* BlockNumber -> Header
    HeaderNumbers,               \* BlockHash -> BlockNumber
    HeaderTerminalDifficulties,  \* BlockNumber -> total difficulty
    BlockOmmers,                 \* BlockNumber -> ommers (non-empty only)
    BlockWithdrawals,            \* BlockNumber -> withdrawals (non-empty only)
    BlockBodyIndices,            \* BlockNumber -> [first_tx_num, tx_count]
    Transactions,                \* TxNumber -> transaction
    TransactionSenders,          \* TxNumber -> Address
    TransactionHashNumbers,      \* TxHash -> TxNumber
    TransactionBlocks,           \* last TxNumber of a block -> BlockNumber
    Receipts,                    \* TxNumber -> Receipt
    PlainAccountState,           \* Address -> Account
    PlainStorageState,           \* rows <<Address, SlotKey, value>>
    HashedAccounts,              \* keccak(Address) -> Account
    HashedStorages,              \* rows <<keccak(Address), keccak(SlotKey), value>>
    AccountChangeSets,           \* <<BlockNumber, Address>> -> previous Account option
    StorageChangeSets,           \* <<BlockNumber, Address, SlotKey>> -> previous value
    AccountsHistory,             \* <<<<Address>>, highest>> -> block list
    StoragesHistory,             \* <<<<Address, SlotKey>>, highest>> -> block list
    StageCheckpoints,            \* StageId -> [block_number, progress]
    TrieState,                   \* what the stored trie nodes commit to
    StaticFileHeaders,           \* Headers static file: BlockNumber -> [header, hash]
    staticWriter,                \* rows appended to the Headers writer, not yet flushed
    committed,                   \* the tables as the last commit left them
    hashing,                     \* the tasks and channels of transaction_hashes_by_range
    lastOp,                      \* the last operation, its range and its result
    snapshot                     \* the tables before the last append

tables == <<CanonicalHeaders, Headers, HeaderNumbers, HeaderTerminalDifficulties,
            BlockOmmers, BlockWithdrawals, BlockBodyIndices, Transactions,
            TransactionSenders, TransactionHashNumbers, TransactionBlocks, Receipts,
            PlainAccountState, PlainStorageState, HashedAccounts, HashedStorages,
            AccountChangeSets, StorageChangeSets, AccountsHistory, StoragesHistory,
            StageCheckpoints, TrieState>>

vars == <<tables, StaticFileHeaders, staticWriter, committed, hashing, lastOp, snapshot>>

\* The tables as one record, the form the handlers work on.
DB == [CanonicalHeaders |-> CanonicalHeaders, Headers |-> Headers,
       HeaderNumbers |-> HeaderNumbers,
       HeaderTerminalDifficulties |-> HeaderTerminalDifficulties,
       BlockOmmers |-> BlockOmmers, BlockWithdrawals |-> BlockWithdrawals,
       BlockBodyIndices |-> BlockBodyIndices, Transactions |-> Transactions,
       TransactionSenders |-> TransactionSenders,
       TransactionHashNumbers |-> TransactionHashNumbers,
       TransactionBlocks |-> TransactionBlocks, Receipts |-> Receipts,
       PlainAccountState |-> PlainAccountState, PlainStorageState |-> PlainStorageState,
       HashedAccounts |-> HashedAccounts, HashedStorages |-> HashedStorages,
       AccountChangeSets |-> AccountChangeSets, StorageChangeSets |-> StorageChangeSets,
       AccountsHistory |-> AccountsHistory, StoragesHistory |-> StoragesHistory,
       StageCheckpoints |-> StageCheckpoints, TrieState |-> TrieState]

\* The tables of the open transaction after a handler has run.
SetTables(db) ==
    /\ CanonicalHeaders' = db.CanonicalHeaders
    /\ Headers' = db.Headers
    /\ HeaderNumbers' = db.HeaderNumbers
    /\ HeaderTerminalDifficulties' = db.HeaderTerminalDifficulties
    /\ BlockOmmers' = db.BlockOmmers
    /\ BlockWithdrawals' = db.BlockWithdrawals
    /\ BlockBodyIndices' = db.BlockBodyIndices
    /\ Transactions' = db.Transactions
    /\ TransactionSenders' = db.TransactionSenders
    /\ TransactionHashNumbers' = db.TransactionHashNumbers
    /\ TransactionBlocks' = db.TransactionBlocks
    /\ Receipts' = db.Receipts
    /\ PlainAccountState' = db.PlainAccountState
    /\ PlainStorageState' = db.PlainStorageState
    /\ HashedAccounts' = db.HashedAccounts
    /\ HashedStorages' = db.HashedStorages
    /\ AccountChangeSets' = db.AccountChangeSets
    /\ StorageChangeSets' = db.StorageChangeSets
    /\ AccountsHistory' = db.AccountsHistory
    /\ StoragesHistory' = db.StoragesHistory
    /\ StageCheckpoints' = db.StageCheckpoints
    /\ TrieState' = db.TrieState

\* The handlers of the transaction write its tables; the static file is
\* written through its own writer only, and nothing is committed.
SetDB(db) ==
    /\ SetTables(db)
    /\ UNCHANGED <<StaticFileHeaders, staticWriter, committed, hashing>>

EmptyTrie == [accounts |-> EmptyTable, storages |-> {}]

\* A fresh database: every table empty.
EmptyDB == [CanonicalHeaders |-> EmptyTable, Headers |-> EmptyTable,
            HeaderNumbers |-> EmptyTable, HeaderTerminalDifficulties |-> EmptyTable,
            BlockOmmers |-> EmptyTable, BlockWithdrawals |-> EmptyTable,
            BlockBodyIndices |-> EmptyTable, Transactions |-> EmptyTable,
            TransactionSenders |-> EmptyTable, TransactionHashNumbers |-> EmptyTable,
            TransactionBlocks |-> EmptyTable, Receipts |-> EmptyTable,
            PlainAccountState |-> EmptyTable, PlainStorageState |-> {},
            HashedAccounts |-> EmptyTable, HashedStorages |-> {},
            AccountChangeSets |-> EmptyTable, StorageChangeSets |-> EmptyTable,
            AccountsHistory |-> EmptyTable, StoragesHistory |-> EmptyTable,
            StageCheckpoints |-> EmptyTable, TrieState |-> EmptyTrie]

\* ------------------------------------------------------------ table access
RangeKeys(t, lo, hi) == {k \in DOMAIN t : lo <= k /\ k <= hi}

RECURSIVE RowsOf(_, _)
RowsOf(t, keys) ==
    IF keys = <<>> THEN <<>> ELSE <<<<Head(keys), t[Head(keys)]>>>> \o RowsOf(t, Tail(keys))

\* A get_or_take that deletes the rows of the range whatever the flag.
GetOrTakeAlways(t, lo, hi, take) ==
    [items |-> RowsOf(t, SortedSeq(RangeKeys(t, lo, hi))),
     table |-> DeleteKeys(t, RangeKeys(t, lo, hi))]

\* get_or_take::<T, TAKE>(lo..=hi) on a table keyed by a number: the rows of
\* the range in key order, and the table with them deleted when TAKE is set.
get_or_take(t, lo, hi, take) ==
    [items |-> RowsOf(t, SortedSeq(RangeKeys(t, lo, hi))),
     table |-> IF take THEN DeleteKeys(t, RangeKeys(t, lo, hi)) ELSE t]

\* prune_table_with_range over the keys lo..=hi of a table keyed by a number.
\* The limiter is [deleted_entries_limit, deleted_entries_count], the limit an
\* option; its limit is reached when the count is not below it.  `skipped`
\* holds the keys of the rows the skip filter keeps.  Every step that finds a
\* row counts as a deleted entry.
prune_table_with_range(table, lo, hi, limiter, skipped) ==
    LET RECURSIVE loop(_, _, _, _)
        loop(t, walker, l, deleted_entries) ==
            IF IsSome(l.deleted_entries_limit)
                 /\ l.deleted_entries_count >= Unwrap(l.deleted_entries_limit)
              THEN [table |-> t, deleted_entries |-> deleted_entries, done |-> FALSE,
                    limiter |-> l]
            ELSE IF walker = <<>>
              THEN [table |-> t, deleted_entries |-> deleted_entries, done |-> TRUE,
                    limiter |-> l]
            ELSE IF Head(walker) \notin skipped
              THEN loop(Delete(t, Head(walker)), Tail(walker),
                        [l EXCEPT !.deleted_entries_count = @ + 1], deleted_entries + 1)
            ELSE loop(t, Tail(walker), l, deleted_entries + 1)
    IN  loop(table, SortedSeq(RangeKeys(table, lo, hi)), limiter, 0)

\* prune_table_with_iterator over a sequence of keys of a table keyed by a
\* number: [table, deleted_entries, done, limiter, looked_up], the last being
\* the number of keys the cursor was asked for.  The for loop takes a key
\* from the iterator before the limit is tested, and done is whether the
\* iterator has a key left after the loop.
prune_table_with_iterator(table, keys, limiter) ==
    LET RECURSIVE loop(_, _, _, _)
        loop(t, ks, l, deleted_entries) ==
            IF ks = <<>>
              THEN [table |-> t, deleted_entries |-> deleted_entries, done |-> TRUE,
                    limiter |-> l, looked_up |-> Len(keys)]
            ELSE IF IsSome(l.deleted_entries_limit)
                      /\ l.deleted_entries_count >= Unwrap(l.deleted_entries_limit)
              THEN [table |-> t, deleted_entries |-> deleted_entries,
                    done |-> Tail(ks) = <<>>, limiter |-> l,
                    looked_up |-> Len(keys) - Len(ks)]
            ELSE IF Head(ks) \in DOMAIN t
              THEN loop(Delete(t, Head(ks)), Tail(ks),
                        [l EXCEPT !.deleted_entries_count = @ + 1], deleted_entries + 1)
            ELSE loop(t, Tail(ks), l, deleted_entries)
    IN  loop(table, keys, limiter, 0)

\* The same on a changeset table, whose keys start with the block number
\* (BlockNumberAddress::range for StorageChangeSets).
ChangeSetKeys(t, lo, hi) == {k \in DOMAIN t : lo <= k[1] /\ k[1] <= hi}
\* A get_or_take on a changeset table that collects the rows after the
\* deletion.
GetOrTakeChangesetDeletingFirst(t, lo, hi, take) ==
    [items |-> IF take THEN <<>> ELSE RowsOf(t, SortedKeys(ChangeSetKeys(t, lo, hi))),
     table |-> IF take THEN DeleteKeys(t, ChangeSetKeys(t, lo, hi)) ELSE t]

get_or_take_changeset(t, lo, hi, take) ==
    [items |-> RowsOf(t, SortedKeys(ChangeSetKeys(t, lo, hi))),
     table |-> IF take THEN DeleteKeys(t, ChangeSetKeys(t, lo, hi)) ELSE t]

Reverse(s) == [i \in 1..Len(s) |-> s[Len(s) + 1 - i]]

\* DbDupCursorRO::seek_by_key_subkey(key, subkey) on a set of
\* <<key, subkey, value>> rows: the first duplicate of `key` whose subkey is
\* >= `subkey` (duplicates are ordered by subkey, then value).
seek_by_key_subkey(rows, key, subkey) ==
    LET dups == {r \in rows : r[1] = key /\ r[2] >= subkey}
    IN  IF dups = {} THEN None
        ELSE Some(CHOOSE r \in dups : \A q \in dups : q = r \/ LexLess(r, q))

\* The same idiom without the test for zero.
ReplaceStorageEntryKeepingZero(rows, key, subkey, value) ==
    LET found == seek_by_key_subkey(rows, key, subkey)
        deleted == IF IsSome(found) /\ Unwrap(found)[2] = subkey
                     THEN rows \ {Unwrap(found)} ELSE rows
    IN  deleted \cup {<<key, subkey, value>>}

\* The repeated idiom "seek_by_key_subkey(..).filter(|e| e.key == key), then
\* delete_current; then upsert unless the value is zero".
ReplaceStorageEntry(rows, key, subkey, value) ==
    LET found == seek_by_key_subkey(rows, key, subkey)
        deleted == IF IsSome(found) /\ Unwrap(found)[2] = subkey
                     THEN rows \ {Unwrap(found)} ELSE rows
    IN  IF value /= 0 THEN deleted \cup {<<key, subkey, value>>} ELSE deleted


\* ------------------------------------------ header sync gap (static files)
\* A sync_gap that leaves one surplus header in the file.
SyncGapPruningOneLess(static_headers, mode, highest_uninterrupted_block) ==
    LET get_highest_static_file_block ==
            IF DOMAIN static_headers = {} THEN None
            ELSE Some(Max(DOMAIN static_headers))
        next_static_file_block_num ==
            IF IsSome(get_highest_static_file_block)
              THEN Unwrap(get_highest_static_file_block) + 1 ELSE 0
        next_block == highest_uninterrupted_block + 1
        prune_headers(n) ==
            [b \in {k \in DOMAIN static_headers : k + n < next_static_file_block_num} |->
                static_headers[b]]
        Gap(headers) ==
            IF highest_uninterrupted_block \notin DOMAIN headers
              THEN [static_headers |-> headers, result |-> "HeaderNotFound",
                    number |-> highest_uninterrupted_block, gap |-> None]
            ELSE [static_headers |-> headers, result |-> "Ok", number |-> 0,
                  gap |-> Some([local_head |-> headers[highest_uninterrupted_block],
                                target |-> IF mode.kind = "Tip"
                                             THEN [kind |-> "Tip", value |-> Unwrap(mode.tip)]
                                             ELSE [kind |-> "TipNum",
                                                   value |-> highest_uninterrupted_block + 1]])]
    IN  IF next_static_file_block_num > next_block
          THEN Gap(prune_headers(next_static_file_block_num - next_block - 1))
        ELSE IF next_static_file_block_num < next_block
          THEN [static_headers |-> static_headers, result |-> "HeaderNotFound",
                number |-> next_static_file_block_num, gap |-> None]
        ELSE Gap(static_headers)

\* A sync_gap that goes on to read the local head when the file is behind.
SyncGapWithoutHeightCheck(static_headers, mode, highest_uninterrupted_block) ==
    LET get_highest_static_file_block ==
            IF DOMAIN static_headers = {} THEN None
            ELSE Some(Max(DOMAIN static_headers))
        next_static_file_block_num ==
            IF IsSome(get_highest_static_file_block)
              THEN Unwrap(get_highest_static_file_block) + 1 ELSE 0
        next_block == highest_uninterrupted_block + 1
        prune_headers(n) ==
            [b \in {k \in DOMAIN static_headers : k + n < next_static_file_block_num} |->
                static_headers[b]]
        Gap(headers) ==
            IF highest_uninterrupted_block \notin DOMAIN headers
              THEN [static_headers |-> headers, result |-> "HeaderNotFound",
                    number |-> highest_uninterrupted_block, gap |-> None]
            ELSE [static_headers |-> headers, result |-> "Ok", number |-> 0,
                  gap |-> Some([local_head |-> headers[highest_uninterrupted_block],
                                target |-> IF mode.kind = "Tip"
                                             THEN [kind |-> "Tip", value |-> Unwrap(mode.tip)]
                                             ELSE [kind |-> "TipNum",
                                                   value |-> highest_uninterrupted_block + 1]])]
    IN  IF next_static_file_block_num > next_block
          THEN Gap(prune_headers(next_static_file_block_num - next_block))
        ELSE IF next_static_file_block_num < next_block
          THEN Gap(static_headers)
        ELSE Gap(static_headers)

\* sync_gap(mode, highest_uninterrupted_block) on the Headers static file:
\* [static_headers, result, number, gap].  `number` is the payload of
\* HeaderNotFound, `gap` the HeaderSyncGap [local_head, target] of an Ok
\* return.  The calls into the static-file provider are modelled from their
\* contract: get_highest_static_file_block is the highest block number of the
\* file (None when it holds no header), prune_headers(n) removes the last n
\* headers, sealed_header(n) is the header stored for block n with its hash.
\* A mode is [kind, tip]; the tip is what the channel of Tip holds.
sync_gap(static_headers, mode, highest_uninterrupted_block) ==
    LET get_highest_static_file_block ==
            IF DOMAIN static_headers = {} THEN None
            ELSE Some(Max(DOMAIN static_headers))
        next_static_file_block_num ==
            IF IsSome(get_highest_static_file_block)
              THEN Unwrap(get_highest_static_file_block) + 1 ELSE 0
        next_block == highest_uninterrupted_block + 1
        prune_headers(n) ==
            [b \in {k \in DOMAIN static_headers : k + n < next_static_file_block_num} |->
                static_headers[b]]
        Gap(headers) ==
            IF highest_uninterrupted_block \notin DOMAIN headers
              THEN [static_headers |-> headers, result |-> "HeaderNotFound",
                    number |-> highest_uninterrupted_block, gap |-> None]
            ELSE [static_headers |-> headers, result |-> "Ok", number |-> 0,
                  gap |-> Some([local_head |-> headers[highest_uninterrupted_block],
                                target |-> IF mode.kind = "Tip"
                                             THEN [kind |-> "Tip", value |-> Unwrap(mode.tip)]
                                             ELSE [kind |-> "TipNum",
                                                   value |-> highest_uninterrupted_block + 1]])]
    IN  IF next_static_file_block_num > next_block
          THEN Gap(prune_headers(next_static_file_block_num - next_block))
        ELSE IF next_static_file_block_num < next_block
          THEN [static_headers |-> static_headers, result |-> "HeaderNotFound",
                number |-> next_static_file_block_num, gap |-> None]
        ELSE Gap(static_headers)

\* ------------------------------------------------------------ block writer
\* A header is [number, salt, difficulty, timestamp, state_root]; `salt`
\* stands for the header fields the model does not track.  The sealed hash is
\* a function of the whole header.
hash_slow(header) ==
    <<header.number, header.salt, header.difficulty, header.timestamp, header.state_root>>

\* ChainSpec::is_shanghai_active_at_timestamp: Shanghai activates at time 1.
is_shanghai_active_at_timestamp(timestamp) == timestamp >= 1

\* A transaction is <<block number, block salt, index>>; its hash is a
\* function of its content, and the signer recovered from its signature too.
TxHash(tx) == <<tx[3], tx[2], tx[1]>>
Signer(tx) == IF (tx[1] + tx[3]) % 2 = 0 THEN Min(Addresses) ELSE Max(Addresses)

\* StoredBlockBodyIndices
first_tx_num(b) == b.first_tx_num
last_tx_num(b) ==
    IF b.first_tx_num + b.tx_count = 0 THEN 0 ELSE b.first_tx_num + b.tx_count - 1

\* ChainSpec::final_paris_total_difficulty: the chain spec of the model
\* declares no Paris block.
final_paris_total_difficulty(number) == None

\* header_td_by_number; no Headers static file is present.
header_td_by_number(db, number) ==
    IF IsSome(final_paris_total_difficulty(number))
      THEN final_paris_total_difficulty(number)
      ELSE Get(db.HeaderTerminalDifficulties, number)

\* header_by_number and block_hash; no Headers static file is present.
header_by_number(db, num) == Get(db.Headers, num)
block_hash(db, number) == Get(db.CanonicalHeaders, number)

\* An insert_block loop that writes no TransactionSenders row at all.
RECURSIVE InsertTransactionsWithoutSenders(_, _, _, _, _, _)
InsertTransactionsWithoutSenders(db, body, senders, i, tx_num, prune_modes) ==
    IF i > Len(body) \/ i > Len(senders) THEN db
    ELSE InsertTransactionsWithoutSenders(
             [db EXCEPT !.Transactions = Put(@, tx_num, body[i]),
                        !.TransactionHashNumbers = Put(@, TxHash(body[i]), tx_num)],
             body, senders, i + 1, tx_num + 1, prune_modes)

\* The loop of insert_block over body.zip(senders), from index i.
RECURSIVE InsertTransactions(_, _, _, _, _, _)
InsertTransactions(db, body, senders, i, tx_num, prune_modes) ==
    IF i > Len(body) \/ i > Len(senders) THEN db
    ELSE
      LET transaction == body[i]
          d1 == IF ~prune_modes.sender_recovery_full
                  THEN [db EXCEPT !.TransactionSenders = Put(@, tx_num, senders[i])]
                  ELSE db
          d2 == [d1 EXCEPT !.Transactions = Put(@, tx_num, transaction)]
          d3 == IF ~prune_modes.transaction_lookup_full
                  THEN [d2 EXCEPT !.TransactionHashNumbers =
                                      Put(@, TxHash(transaction), tx_num)]
                  ELSE d2
      IN  InsertTransactions(d3, body, senders, i + 1, tx_num + 1, prune_modes)

\* An insert_block that numbers the transactions of every block from 0.
TxNumbersFromZero(db) == 0

\* The first lines of the transaction part of insert_block: the last
\* TransactionBlocks key plus one, or 0 on an empty table.
TxNumberAfterLast(db) ==
    IF DOMAIN db.TransactionBlocks = {} THEN 0 ELSE Max(DOMAIN db.TransactionBlocks) + 1

insert_block(db, block, prune_modes) ==
    LET block_number == block.header.number
        d1 == [db EXCEPT !.CanonicalHeaders = Put(@, block_number, hash_slow(block.header)),
                         !.Headers = Put(@, block_number, block.header),
                         !.HeaderNumbers = Put(@, hash_slow(block.header), block_number)]
        parent_ttd == header_td_by_number(d1, block_number - 1)
        ttd == IF block_number = 0 THEN block.header.difficulty
               ELSE (IF IsSome(parent_ttd) THEN Unwrap(parent_ttd) ELSE 0)
                    + block.header.difficulty
        d2 == [d1 EXCEPT !.HeaderTerminalDifficulties = Put(@, block_number, ttd)]
        d3 == IF block.ommers /= <<>>
                THEN [d2 EXCEPT !.BlockOmmers = Put(@, block_number, block.ommers)]
                ELSE d2
        first == TxNumberAfterLast(d3)
        tx_count == Len(block.body)
        d4 == InsertTransactions(d3, block.body, block.senders, 1, first, prune_modes)
        d5 == IF IsSome(block.withdrawals) /\ Unwrap(block.withdrawals) /= <<>>
                THEN [d4 EXCEPT !.BlockWithdrawals =
                                    Put(@, block_number, Unwrap(block.withdrawals))]
                ELSE d4
        block_indices == [first_tx_num |-> first, tx_count |-> tx_count]
        d6 == [d5 EXCEPT !.BlockBodyIndices = Put(@, block_number, block_indices)]
    IN  IF tx_count /= 0
          THEN [d6 EXCEPT !.TransactionBlocks =
                              Put(@, last_tx_num(block_indices), block_number)]
          ELSE d6

\* ------------------------------------------------------- stage checkpoints
\* StageId::ALL
StageIds == {"Headers", "Bodies", "SenderRecovery", "Execution", "AccountHashing",
             "StorageHashing", "MerkleExecute", "MerkleUnwind", "TransactionLookup",
             "IndexAccountHistory", "IndexStorageHistory", "Finish"}

\* StageCheckpoint: the block number and the stage-specific progress
\* (0 is Default::default()).
DefaultCheckpoint == [block_number |-> 0, progress |-> 0]

save_stage_checkpoint(db, id, checkpoint) ==
    [db EXCEPT !.StageCheckpoints = Put(@, id, checkpoint)]

\* An update of the stages that have a row already.
update_pipeline_stages_existing(db, block_number, drop_stage_checkpoint) ==
    [db EXCEPT !.StageCheckpoints =
        [stage_id \in DOMAIN @ |->
            IF stage_id \in StageIds
              THEN [block_number |-> block_number,
                    progress |-> IF drop_stage_checkpoint
                                   THEN DefaultCheckpoint.progress
                                   ELSE @[stage_id].progress]
              ELSE @[stage_id]]]

\* An update that resets the progress of every stage, whatever the flag.
update_pipeline_stages_dropping(db, block_number, drop_stage_checkpoint) ==
    [db EXCEPT !.StageCheckpoints =
        [stage_id \in (DOMAIN @) \cup StageIds |->
            IF stage_id \in StageIds
              THEN [block_number |-> block_number, progress |-> DefaultCheckpoint.progress]
              ELSE @[stage_id]]]

\* An update that keeps the progress of every stage, whatever the flag.
update_pipeline_stages_keeping(db, block_number, drop_stage_checkpoint) ==
    [db EXCEPT !.StageCheckpoints =
        [stage_id \in (DOMAIN @) \cup StageIds |->
            IF stage_id \in StageIds
              THEN [block_number |-> block_number,
                    progress |-> IF stage_id \in DOMAIN @ THEN @[stage_id].progress
                                 ELSE DefaultCheckpoint.progress]
              ELSE @[stage_id]]]

update_pipeline_stages(db, block_number, drop_stage_checkpoint) ==
    [db EXCEPT !.StageCheckpoints =
        [stage_id \in (DOMAIN @) \cup StageIds |->
            IF stage_id \in StageIds
              THEN LET checkpoint == IF stage_id \in DOMAIN @ THEN @[stage_id]
                                     ELSE DefaultCheckpoint
                   IN  [block_number |-> block_number,
                        progress |-> IF drop_stage_checkpoint
                                       THEN DefaultCheckpoint.progress
                                       ELSE checkpoint.progress]
              ELSE @[stage_id]]]

\* last_block_number; no Headers static file is present.
last_block_number(db) ==
    IF DOMAIN db.CanonicalHeaders = {} THEN 0 ELSE Max(DOMAIN db.CanonicalHeaders)

\* state_provider_by_block_number without the look at best_block_number.
StateProviderByLastBlockOnly(db, static_headers, prune_checkpoints, block_number) ==
    LET numbers == DOMAIN db.CanonicalHeaders \cup DOMAIN static_headers
        highest == IF numbers = {} THEN 0 ELSE Max(numbers)
        lowest(segment) ==
            LET prune_checkpoint == Get(prune_checkpoints, segment)
            IN  IF IsSome(prune_checkpoint) /\ IsSome(Unwrap(prune_checkpoint).block_number)
                  THEN Some(Unwrap(Unwrap(prune_checkpoint).block_number) + 1)
                  ELSE None
    IN  IF block_number = highest
          THEN [kind |-> "LatestStateProvider"]
          ELSE [kind |-> "HistoricalStateProvider",
                block_number |-> (block_number + 1) % (U64_MAX + 1),
                lowest_available_account_history_block_number |-> lowest("AccountHistory"),
                lowest_available_storage_history_block_number |-> lowest("StorageHistory")]

\* state_provider_by_block_number.  best_block_number is the block of the
\* Finish checkpoint, last_block_number the higher of the last
\* CanonicalHeaders key and the highest block of the Headers static file,
\* each 0 when there is none.  A prune checkpoint is [block_number], an
\* option.  A historical provider starts with no lowest available block.
state_provider_by_block_number(db, static_headers, prune_checkpoints, block_number) ==
    LET finish == Get(db.StageCheckpoints, "Finish")
        best_block_number == IF IsSome(finish) THEN Unwrap(finish).block_number ELSE 0
        numbers == DOMAIN db.CanonicalHeaders \cup DOMAIN static_headers
        highest == IF numbers = {} THEN 0 ELSE Max(numbers)
        lowest(segment) ==
            LET prune_checkpoint == Get(prune_checkpoints, segment)
            IN  IF IsSome(prune_checkpoint) /\ IsSome(Unwrap(prune_checkpoint).block_number)
                  THEN Some(Unwrap(Unwrap(prune_checkpoint).block_number) + 1)
                  ELSE None
    IN  IF block_number = best_block_number /\ block_number = highest
          THEN [kind |-> "LatestStateProvider"]
          ELSE [kind |-> "HistoricalStateProvider",
                block_number |-> (block_number + 1) % (U64_MAX + 1),
                lowest_available_account_history_block_number |-> lowest("AccountHistory"),
                lowest_available_storage_history_block_number |-> lowest("StorageHistory")]


\* ------------------------------------------------- transaction readers
\* DbCursorRO::seek(key) on a table keyed by a number: the first row whose
\* key is >= `key`.
\* A seek that skips the row at the key itself.
SeekAbove(t, key) ==
    LET above == {k \in DOMAIN t : k > key}
    IN  IF above = {} THEN None ELSE Some(<<Min(above), t[Min(above)]>>)

CursorSeek(t, key) ==
    LET above == {k \in DOMAIN t : k >= key}
    IN  IF above = {} THEN None ELSE Some(<<Min(above), t[Min(above)]>>)

\* transaction_block(id): the block of the first TransactionBlocks row at or
\* above the id.
transaction_block(db, id) ==
    LET row == CursorSeek(db.TransactionBlocks, id)
    IN  IF IsSome(row) THEN Some(Unwrap(row)[2]) ELSE None

\* transaction_by_hash_with_meta(tx_hash): the transaction and its meta, or
\* None.  `index` is transaction_id - first_tx_num in u64: the subtraction
\* overflows ("Overflow") when the block found starts above the id.
transaction_by_hash_with_meta(db, tx_hash) ==
    LET transaction_id == Get(db.TransactionHashNumbers, tx_hash)
        tx == IF IsSome(transaction_id) THEN Get(db.Transactions, Unwrap(transaction_id))
              ELSE None
        block_number == IF IsSome(tx) THEN transaction_block(db, Unwrap(transaction_id))
                        ELSE None
        sealed_header == IF IsSome(block_number) THEN header_by_number(db, Unwrap(block_number))
                         ELSE None
        block_body == IF IsSome(sealed_header) THEN Get(db.BlockBodyIndices, Unwrap(block_number))
                      ELSE None
    IN  IF IsNone(block_body) THEN [result |-> "None"]
        ELSE IF Unwrap(transaction_id) < first_tx_num(Unwrap(block_body))
          THEN [result |-> "Overflow"]
        ELSE [result |-> "Some",
              transaction |-> Unwrap(tx),
              index |-> Unwrap(transaction_id) - first_tx_num(Unwrap(block_body)),
              block_hash |-> hash_slow(Unwrap(sealed_header)),
              block_number |-> Unwrap(block_number)]

\* --------------------------------------------- state root (reth_trie crate)
\* The state root commits to the hashed accounts and, for every account
\* present, to its hashed storage.  It is modelled as that content itself
\* (a collision-free digest).
StateRootOf(accounts, storages) ==
    [accounts |-> accounts, storages |-> {r \in storages : r[1] \in DOMAIN accounts}]

\* StateRoot::from_tx(tx).with_prefix_sets(..).root_with_updates(): the walk
\* re-reads from the hashed tables the account leaves in account_prefix_set
\* and, below such an account, the slots in its storage prefix set; everything
\* else comes from the stored trie nodes.  storage_prefix_sets is a function
\* hashed address -> set of hashed slots.
root_with_updates(db, account_prefix_set, storage_prefix_sets) ==
    LET trie == db.TrieState
        reread(ha, hs) == /\ ha \in account_prefix_set
                          /\ ha \in DOMAIN storage_prefix_sets
                          /\ hs \in storage_prefix_sets[ha]
        keys == {ha \in DOMAIN trie.accounts : ha \notin account_prefix_set}
                   \cup {ha \in DOMAIN db.HashedAccounts : ha \in account_prefix_set}
        accounts == [ha \in keys |-> IF ha \in account_prefix_set
                                       THEN db.HashedAccounts[ha] ELSE trie.accounts[ha]]
        storages == {r \in trie.storages : ~reread(r[1], r[2])}
                       \cup {r \in db.HashedStorages : reread(r[1], r[2])}
    IN  [root |-> StateRootOf(accounts, storages),
         trie_updates |-> [accounts |-> accounts, storages |-> storages]]

\* TrieUpdates::flush
flush(db, trie_updates) == [db EXCEPT !.TrieState = trie_updates]

\* ------------------------- execution outcome (bundle_state module, revm)
\* The changes of one block are [acct, stor]: acct maps the addresses the
\* block touched to their new account (an option), stor maps the
\* <<address, slot>> pairs it touched to their new value.
PlainStorageValue(rows, address, key) ==
    LET found == seek_by_key_subkey(rows, address, key)
    IN  IF IsSome(found) /\ Unwrap(found)[2] = key THEN Unwrap(found)[3] ELSE 0

\* BundleStateWithReceipts::write_to_storage(tx, None, OriginalValuesKnown::No),
\* block by block: the changeset row of a touched key holds the value the key
\* had before the block, the plain tables get the new value (a zero slot and
\* an absent account are deleted), and one receipt is stored per transaction
\* of the block, found through BlockBodyIndices.
RECURSIVE WriteReceipts(_, _, _)
WriteReceipts(receipts, indices, i) ==
    IF i >= indices.tx_count THEN receipts
    ELSE WriteReceipts(Put(receipts, indices.first_tx_num + i,
                           [cumulative_gas_used |-> i + 1]), indices, i + 1)

RECURSIVE WritePlainAccounts(_, _, _)
WritePlainAccounts(accounts, acct, addrs) ==
    IF addrs = <<>> THEN accounts
    ELSE LET a == Head(addrs)
         IN  WritePlainAccounts(IF IsSome(acct[a]) THEN Put(accounts, a, Unwrap(acct[a]))
                                ELSE Delete(accounts, a), acct, Tail(addrs))

RECURSIVE WritePlainStorage(_, _, _)
WritePlainStorage(rows, stor, keys) ==
    IF keys = <<>> THEN rows
    ELSE LET k == Head(keys)
         IN  WritePlainStorage(ReplaceStorageEntry(rows, k[1], k[2], stor[k]),
                               stor, Tail(keys))

RECURSIVE write_to_storage(_, _, _)
write_to_storage(db, first_block, changes) ==
    IF changes = <<>> THEN db
    ELSE
      LET c == Head(changes)
          d1 == [db EXCEPT
                   !.AccountChangeSets =
                       [k \in (DOMAIN @) \cup {<<first_block, a>> : a \in DOMAIN c.acct} |->
                           IF k[1] = first_block /\ k[2] \in DOMAIN c.acct
                             THEN Get(db.PlainAccountState, k[2]) ELSE @[k]],
                   !.StorageChangeSets =
                       [k \in (DOMAIN @) \cup {<<first_block, p[1], p[2]>> : p \in DOMAIN c.stor} |->
                           IF k[1] = first_block /\ <<k[2], k[3]>> \in DOMAIN c.stor
                             THEN PlainStorageValue(db.PlainStorageState, k[2], k[3])
                             ELSE @[k]],
                   !.PlainAccountState =
                       WritePlainAccounts(@, c.acct, SortedSeq(DOMAIN c.acct)),
                   !.PlainStorageState =
                       WritePlainStorage(@, c.stor, SortedKeys(DOMAIN c.stor)),
                   !.Receipts =
                       IF first_block \in DOMAIN db.BlockBodyIndices
                         THEN WriteReceipts(@, db.BlockBodyIndices[first_block], 0)
                         ELSE @]
      IN  write_to_storage(d1, first_block + 1, Tail(changes))

\* HashedPostState of the same changes and HashedStateChanges::write_to_db.
RECURSIVE WriteHashedAccounts(_, _, _)
WriteHashedAccounts(accounts, acct, addrs) ==
    IF addrs = <<>> THEN accounts
    ELSE LET a == Head(addrs)
         IN  WriteHashedAccounts(
                 IF IsSome(acct[a]) THEN Put(accounts, keccak256(a), Unwrap(acct[a]))
                 ELSE Delete(accounts, keccak256(a)), acct, Tail(addrs))

RECURSIVE WriteHashedStorage(_, _, _)
WriteHashedStorage(rows, stor, keys) ==
    IF keys = <<>> THEN rows
    ELSE LET k == Head(keys)
         IN  WriteHashedStorage(
                 ReplaceStorageEntry(rows, keccak256(k[1]), keccak256(k[2]), stor[k]),
                 stor, Tail(keys))

RECURSIVE write_to_db(_, _)
write_to_db(db, changes) ==
    IF changes = <<>> THEN db
    ELSE LET c == Head(changes)
         IN  write_to_db(
                 [db EXCEPT
                    !.HashedAccounts =
                        WriteHashedAccounts(@, c.acct, SortedSeq(DOMAIN c.acct)),
                    !.HashedStorages =
                        WriteHashedStorage(@, c.stor, SortedKeys(DOMAIN c.stor))],
                 Tail(changes))


\* ---------------------------------------------------------- hashing writer
\* Iterator::collect::<BTreeMap<_, _>>() of a sequence of <<key, value>>:
\* a later pair replaces an earlier one with the same key.
RECURSIVE CollectMap(_, _)
CollectMap(map, pairs) ==
    IF pairs = <<>> THEN map
    ELSE CollectMap(Put(map, Head(pairs)[1], Head(pairs)[2]), Tail(pairs))

RECURSIVE ApplyHashedAccounts(_, _, _)
ApplyHashedAccounts(accounts, hashed_accounts, keys) ==
    IF keys = <<>> THEN accounts
    ELSE LET hashed_address == Head(keys)
             account == hashed_accounts[hashed_address]
         IN  ApplyHashedAccounts(
                 IF IsSome(account) THEN Put(accounts, hashed_address, Unwrap(account))
                 ELSE Delete(accounts, hashed_address),
                 hashed_accounts, Tail(keys))

\* An unwind of the account hashing that collects the changeset rows in
\* their stored order, so that the row of the latest block wins.
UnwindAccountHashingInOrder(db, lo, hi) ==
    LET rows == get_or_take_changeset(db.AccountChangeSets, lo, hi, FALSE).items
        pairs == [i \in 1..Len(rows) |-> <<keccak256(rows[i][1][2]), rows[i][2]>>]
        hashed_accounts == CollectMap(EmptyTable, pairs)
    IN  [db |-> [db EXCEPT !.HashedAccounts =
                    ApplyHashedAccounts(@, hashed_accounts,
                                        SortedSeq(DOMAIN hashed_accounts))],
         hashed_accounts |-> hashed_accounts]

\* unwind_account_hashing: [db, hashed_accounts].
unwind_account_hashing(db, lo, hi) ==
    LET rows == get_or_take_changeset(db.AccountChangeSets, lo, hi, FALSE).items
        pairs == [i \in 1..Len(rows) |-> <<keccak256(rows[i][1][2]), rows[i][2]>>]
        hashed_accounts == CollectMap(EmptyTable, Reverse(pairs))
    IN  [db |-> [db EXCEPT !.HashedAccounts =
                    ApplyHashedAccounts(@, hashed_accounts,
                                        SortedSeq(DOMAIN hashed_accounts))],
         hashed_accounts |-> hashed_accounts]

\* ApplyHashedStorages that upserts the zero values too.
RECURSIVE ApplyHashedStoragesKeepingZero(_, _)
ApplyHashedStoragesKeepingZero(rows, entries) ==
    IF entries = <<>> THEN rows
    ELSE LET e == Head(entries)
         IN  ApplyHashedStoragesKeepingZero(
                 ReplaceStorageEntryKeepingZero(rows, e[1], e[2], e[4]), Tail(entries))

RECURSIVE ApplyHashedStorages(_, _)
ApplyHashedStorages(rows, entries) ==
    IF entries = <<>> THEN rows
    ELSE LET e == Head(entries)
         IN  ApplyHashedStorages(ReplaceStorageEntry(rows, e[1], e[2], e[4]), Tail(entries))

\* unwind_storage_hashing: [db, hashed_storage_keys].  The changeset rows
\* become <<hashed address, hashed slot, block, value>>; the stable sort by
\* (hashed address, hashed slot) leaves the blocks of one slot ascending, and
\* the rows are applied in reverse.
unwind_storage_hashing(db, lo, hi) ==
    LET keys == ChangeSetKeys(db.StorageChangeSets, lo, hi)
        hashed_storages ==
            SortedKeys({<<keccak256(k[2]), keccak256(k[3]), k[1], db.StorageChangeSets[k]>> :
                            k \in keys})
        hashed_addresses == {keccak256(k[2]) : k \in keys}
    IN  [db |-> [db EXCEPT !.HashedStorages =
                    ApplyHashedStorages(@, Reverse(hashed_storages))],
         hashed_storage_keys |->
            [ha \in hashed_addresses |->
                {keccak256(k[3]) : k \in {j \in keys : keccak256(j[2]) = ha}}]]

\* insert_account_for_hashing that builds the map of hashed accounts and
\* leaves the table alone.
InsertAccountForHashingWithoutWrite(db, accounts) ==
    [db |-> db,
     hashed_accounts |->
        CollectMap(EmptyTable,
            [i \in 1..Len(accounts) |-> <<keccak256(accounts[i][1]), accounts[i][2]>>])]

\* insert_account_for_hashing that writes the table and reports no hashed
\* account.
InsertAccountForHashingWithoutKeys(db, accounts) ==
    LET Apply(hashed_accounts) ==
            [db |-> [db EXCEPT !.HashedAccounts =
                        ApplyHashedAccounts(@, hashed_accounts,
                                            SortedSeq(DOMAIN hashed_accounts))],
             hashed_accounts |-> EmptyTable]
    IN  Apply(CollectMap(EmptyTable,
                  [i \in 1..Len(accounts) |-> <<keccak256(accounts[i][1]), accounts[i][2]>>]))

\* insert_account_for_hashing: `accounts` is a sequence of
\* <<address, account option>>; collected into a BTreeMap by hashed address
\* and applied in key order.  [db, hashed_accounts].
insert_account_for_hashing(db, accounts) ==
    LET Apply(hashed_accounts) ==
            [db |-> [db EXCEPT !.HashedAccounts =
                        ApplyHashedAccounts(@, hashed_accounts,
                                            SortedSeq(DOMAIN hashed_accounts))],
             hashed_accounts |-> hashed_accounts]
    IN  Apply(CollectMap(EmptyTable,
                  [i \in 1..Len(accounts) |-> <<keccak256(accounts[i][1]), accounts[i][2]>>]))

\* insert_storage_for_hashing: `storages` is a sequence of
\* <<address, sequence of <<slot key, value>>>>.  The fold builds a BTreeMap
\* hashed address -> (hashed slot -> value); its entries are applied in key
\* order: the duplicate of the slot is deleted, and the new value is upserted
\* unless it is zero.  [db, hashed_storage_keys].
insert_storage_for_hashing(db, storages) ==
    LET Apply(map) ==
            [db |-> [db EXCEPT !.HashedStorages =
                        ApplyHashedStorages(@,
                            SortedKeys(UNION {{<<ha, hk, 0, map[ha][hk]>> : hk \in DOMAIN map[ha]} :
                                                ha \in DOMAIN map}))],
             hashed_storage_keys |-> [ha \in DOMAIN map |-> DOMAIN map[ha]]]
    IN  Apply(CollectMap(EmptyTable,
                  [i \in 1..Len(storages) |->
                      <<keccak256(storages[i][1]),
                        CollectMap(EmptyTable,
                            [j \in 1..Len(storages[i][2]) |->
                                <<keccak256(storages[i][2][j][1]), storages[i][2][j][2]>>])>>]))

\* insert_hashes that flushes the trie updates before it compares the roots.
InsertHashesFlushingFirst(db, lo, hi, end_block_hash, expected_state_root) ==
    LET changed_storages_with_range ==
            [address \in {k[2] : k \in ChangeSetKeys(db.StorageChangeSets, lo, hi)} |->
                {k[3] : k \in {j \in ChangeSetKeys(db.StorageChangeSets, lo, hi) :
                                  j[2] = address}}]
        StorageEntries(address, keys) ==
            [j \in 1..Len(keys) |->
                <<keys[j], PlainStorageValue(db.PlainStorageState, address, keys[j])>>]
        plain_state_storages(lists, addresses) ==
            [i \in 1..Len(addresses) |->
                <<addresses[i], StorageEntries(addresses[i], SortedSeq(lists[addresses[i]]))>>]
        changed_accounts_with_range(d) ==
            {k[2] : k \in ChangeSetKeys(d.AccountChangeSets, lo, hi)}
        basic_accounts(d, addresses) ==
            [i \in 1..Len(addresses) |->
                <<addresses[i], Get(d.PlainAccountState, addresses[i])>>]
        Outcome(d, result, state_root) ==
            [db |-> d, result |-> result, got |-> state_root,
             expected |-> expected_state_root, block_number |-> hi,
             block_hash |-> end_block_hash]
        Compare(d, computed) ==
            IF computed.root /= expected_state_root
              THEN Outcome(flush(d, computed.trie_updates), "StateRootMismatch", computed.root)
              ELSE Outcome(flush(d, computed.trie_updates), "Ok", computed.root)
        MerkleTree(storage_entries, hashed_addresses) ==
            Compare(hashed_addresses.db,
                    root_with_updates(hashed_addresses.db,
                        (DOMAIN storage_entries.hashed_storage_keys)
                            \cup (DOMAIN hashed_addresses.hashed_accounts),
                        storage_entries.hashed_storage_keys))
        AccountHashing(storage_entries) ==
            MerkleTree(storage_entries,
                insert_account_for_hashing(storage_entries.db,
                    basic_accounts(storage_entries.db,
                        SortedSeq(changed_accounts_with_range(storage_entries.db)))))
    IN  AccountHashing(
            insert_storage_for_hashing(db,
                plain_state_storages(changed_storages_with_range,
                                     SortedSeq(DOMAIN changed_storages_with_range))))

\* insert_hashes(lo..=hi, end_block_hash, expected_state_root), with the
\* readers it calls: changed_storages_with_range, plain_state_storages,
\* changed_accounts_with_range and basic_accounts.  The hashed tables are
\* written first; the trie updates are flushed only when the root matches.
\* destroyed_accounts, the hashed accounts that are now None, makes the walk
\* drop their storage tries: StateRootOf leaves out the storage of absent
\* accounts.
\* [db, result, got, expected, block_number, block_hash].
insert_hashes(db, lo, hi, end_block_hash, expected_state_root) ==
    LET changed_storages_with_range ==
            [address \in {k[2] : k \in ChangeSetKeys(db.StorageChangeSets, lo, hi)} |->
                {k[3] : k \in {j \in ChangeSetKeys(db.StorageChangeSets, lo, hi) :
                                  j[2] = address}}]
        StorageEntries(address, keys) ==
            [j \in 1..Len(keys) |->
                <<keys[j], PlainStorageValue(db.PlainStorageState, address, keys[j])>>]
        plain_state_storages(lists, addresses) ==
            [i \in 1..Len(addresses) |->
                <<addresses[i], StorageEntries(addresses[i], SortedSeq(lists[addresses[i]]))>>]
        changed_accounts_with_range(d) ==
            {k[2] : k \in ChangeSetKeys(d.AccountChangeSets, lo, hi)}
        basic_accounts(d, addresses) ==
            [i \in 1..Len(addresses) |->
                <<addresses[i], Get(d.PlainAccountState, addresses[i])>>]
        Outcome(d, result, state_root) ==
            [db |-> d, result |-> result, got |-> state_root,
             expected |-> expected_state_root, block_number |-> hi,
             block_hash |-> end_block_hash]
        Compare(d, computed) ==
            IF computed.root /= expected_state_root
              THEN Outcome(d, "StateRootMismatch", computed.root)
              ELSE Outcome(flush(d, computed.trie_updates), "Ok", computed.root)
        MerkleTree(storage_entries, hashed_addresses) ==
            Compare(hashed_addresses.db,
                    root_with_updates(hashed_addresses.db,
                        (DOMAIN storage_entries.hashed_storage_keys)
                            \cup (DOMAIN hashed_addresses.hashed_accounts),
                        storage_entries.hashed_storage_keys))
        AccountHashing(storage_entries) ==
            MerkleTree(storage_entries,
                insert_account_for_hashing(storage_entries.db,
                    basic_accounts(storage_entries.db,
                        SortedSeq(changed_accounts_with_range(storage_entries.db)))))
    IN  AccountHashing(
            insert_storage_for_hashing(db,
                plain_state_storages(changed_storages_with_range,
                                     SortedSeq(DOMAIN changed_storages_with_range))))

\* ---------------------------------------------------------- history writer
\* changed_accounts_and_blocks_with_range / changed_storages_and_blocks_with_range:
\* partial key -> the blocks of the range with a changeset row for it, ascending.
changed_accounts_and_blocks_with_range(db, lo, hi) ==
    LET keys == ChangeSetKeys(db.AccountChangeSets, lo, hi)
    IN  [p \in {<<k[2]>> : k \in keys} |->
            SortedSeq({k[1] : k \in {j \in keys : <<j[2]>> = p}})]

changed_storages_and_blocks_with_range(db, lo, hi) ==
    LET keys == ChangeSetKeys(db.StorageChangeSets, lo, hi)
    IN  [p \in {<<k[2], k[3]>> : k \in keys} |->
            SortedSeq({k[1] : k \in {j \in keys : <<j[2], j[3]>> = p}})]

insert_account_history_index(db, account_transitions) ==
    [db EXCEPT !.AccountsHistory = append_history_index(@, account_transitions)]

insert_storage_history_index(db, storage_transitions) ==
    [db EXCEPT !.StoragesHistory = append_history_index(@, storage_transitions)]

update_history_indices(db, lo, hi) ==
    LET d1 == insert_account_history_index(db,
                  changed_accounts_and_blocks_with_range(db, lo, hi))
    IN  insert_storage_history_index(d1,
            changed_storages_and_blocks_with_range(d1, lo, hi))

\* unwind_account_history_indices: the changeset rows as <<<<address>>, block>>,
\* sorted by address (stable), then one unwind and reinsertion per row.
unwind_account_history_indices(db, lo, hi) ==
    LET keys == ChangeSetKeys(db.AccountChangeSets, lo, hi)
        sorted == SortedKeys({<<k[2], k[1]>> : k \in keys})
        last_indices == [i \in 1..Len(sorted) |-> <<<<sorted[i][1]>>, sorted[i][2]>>]
        r == UnwindHistoryRows(db.AccountsHistory, last_indices)
    IN  [db |-> [db EXCEPT !.AccountsHistory = r.table], result |-> r.result]

\* An unwind of the storage history that takes the changeset rows it reads.
UnwindStorageHistoryTakingRows(db, lo, hi) ==
    LET keys == ChangeSetKeys(db.StorageChangeSets, lo, hi)
        sorted == SortedKeys({<<k[2], k[3], k[1]>> : k \in keys})
        storage_changesets ==
            [i \in 1..Len(sorted) |-> <<<<sorted[i][1], sorted[i][2]>>, sorted[i][3]>>]
        r == UnwindHistoryRows(db.StoragesHistory, storage_changesets)
    IN  [db |-> [db EXCEPT !.StoragesHistory = r.table,
                           !.StorageChangeSets = DeleteKeys(@, keys)],
         result |-> r.result]

unwind_storage_history_indices(db, lo, hi) ==
    LET keys == ChangeSetKeys(db.StorageChangeSets, lo, hi)
        sorted == SortedKeys({<<k[2], k[3], k[1]>> : k \in keys})
        storage_changesets ==
            [i \in 1..Len(sorted) |-> <<<<sorted[i][1], sorted[i][2]>>, sorted[i][3]>>]
        r == UnwindHistoryRows(db.StoragesHistory, storage_changesets)
    IN  [db |-> [db EXCEPT !.StoragesHistory = r.table], result |-> r.result]


\* -------------------------------------------------------- changeset engine
\* BundleStateInit: address -> [old, new, storage], storage: slot -> <<old, new>>.
\* The loop over account_changeset.rev(); rows are <<<<block, address>>, old_info>>.
\* A loop over the account changesets that keeps the old value of the first
\* encounter of an address, the one of the latest block.
AddAccountChangesKeepingFirst(state, plain_accounts, rows) ==
    LET RECURSIVE Go(_, _)
        Go(acc, rs) ==
            IF rs = <<>> THEN acc
            ELSE
              LET address == Head(rs)[1][2]
                  entry == IF address \in DOMAIN acc THEN acc[address]
                           ELSE [old |-> Head(rs)[2], new |-> Get(plain_accounts, address),
                                 storage |-> EmptyTable]
              IN  Go(Put(acc, address, entry), Tail(rs))
    IN  Go(state, rows)

RECURSIVE AddAccountChanges(_, _, _)
AddAccountChanges(state, plain_accounts, rows) ==
    IF rows = <<>> THEN state
    ELSE
      LET address == Head(rows)[1][2]
          old_info == Head(rows)[2]
          entry == IF address \in DOMAIN state
                     THEN [state[address] EXCEPT !.old = old_info]
                     ELSE [old |-> old_info, new |-> Get(plain_accounts, address),
                           storage |-> EmptyTable]
      IN  AddAccountChanges(Put(state, address, entry), plain_accounts, Tail(rows))

\* The loop over storage_changeset.rev(); rows are
\* <<<<block, address, slot>>, old value>>.
RECURSIVE AddStorageChanges(_, _, _, _)
AddStorageChanges(state, plain_accounts, plain_storage, rows) ==
    IF rows = <<>> THEN state
    ELSE
      LET address == Head(rows)[1][2]
          key == Head(rows)[1][3]
          old_value == Head(rows)[2]
          present_info == Get(plain_accounts, address)
          account_state == IF address \in DOMAIN state THEN state[address]
                           ELSE [old |-> present_info, new |-> present_info,
                                 storage |-> EmptyTable]
          slot == IF key \in DOMAIN account_state.storage
                    THEN <<old_value, account_state.storage[key][2]>>
                    ELSE <<old_value, PlainStorageValue(plain_storage, address, key)>>
      IN  AddStorageChanges(
              Put(state, address,
                  [account_state EXCEPT !.storage = Put(@, key, slot)]),
              plain_accounts, plain_storage, Tail(rows))

\* RevertsInit: block -> address -> [account, storage]; account is an option
\* of the old info (itself an option), storage the old entries in row order.
RECURSIVE AddAccountReverts(_, _)
AddAccountReverts(reverts, rows) ==
    IF rows = <<>> THEN reverts
    ELSE
      LET k == <<Head(rows)[1][1], Head(rows)[1][2]>>
          entry == IF k \in DOMAIN reverts THEN reverts[k]
                   ELSE [account |-> None, storage |-> <<>>]
      IN  AddAccountReverts(Put(reverts, k, [entry EXCEPT !.account = Some(Head(rows)[2])]),
                            Tail(rows))

RECURSIVE AddStorageReverts(_, _)
AddStorageReverts(reverts, rows) ==
    IF rows = <<>> THEN reverts
    ELSE
      LET k == <<Head(rows)[1][1], Head(rows)[1][2]>>
          entry == IF k \in DOMAIN reverts THEN reverts[k]
                   ELSE [account |-> None, storage |-> <<>>]
      IN  AddStorageReverts(
              Put(reverts, k,
                  [entry EXCEPT !.storage = Append(@, <<Head(rows)[1][3], Head(rows)[2]>>)]),
              Tail(rows))

\* A revert of the plain storage that writes the present values back.
RevertPlainStorageToPresent(rows, address, storage, keys) ==
    LET RECURSIVE Go(_, _)
        Go(acc, ks) ==
            IF ks = <<>> THEN acc
            ELSE Go(ReplaceStorageEntry(acc, address, Head(ks), storage[Head(ks)][2]), Tail(ks))
    IN  Go(rows, keys)

\* The UNWIND branch: revert the plain tables from the local state.
RECURSIVE RevertPlainStorage(_, _, _, _)
RevertPlainStorage(rows, address, storage, keys) ==
    IF keys = <<>> THEN rows
    ELSE RevertPlainStorage(
             ReplaceStorageEntry(rows, address, Head(keys), storage[Head(keys)][1]),
             address, storage, Tail(keys))

RECURSIVE RevertPlainState(_, _, _)
RevertPlainState(db, state, addrs) ==
    IF addrs = <<>> THEN db
    ELSE
      LET address == Head(addrs)
          e == state[address]
          d1 == IF e.old /= e.new
                  THEN [db EXCEPT !.PlainAccountState =
                            IF IsSome(e.old) THEN Put(@, address, Unwrap(e.old))
                            ELSE Delete(@, address)]
                  ELSE db
          d2 == [d1 EXCEPT !.PlainStorageState =
                    RevertPlainStorage(@, address, e.storage, SortedSeq(DOMAIN e.storage))]
      IN  RevertPlainState(d2, state, Tail(addrs))

\* The receipts of the range split back into one vector per block.
RECURSIVE PartitionReceipts(_, _)
PartitionReceipts(block_bodies, receipts) ==
    IF block_bodies = <<>> THEN <<>>
    ELSE LET n == IF Head(block_bodies)[2].tx_count < Len(receipts)
                    THEN Head(block_bodies)[2].tx_count ELSE Len(receipts)
         IN  <<[i \in 1..n |-> Some(receipts[i][2])]>>
                \o PartitionReceipts(Tail(block_bodies), SubSeq(receipts, n + 1, Len(receipts)))

\* unwind_or_peek_state::<UNWIND>(lo..=hi): [db, result, bundle].
unwind_or_peek_state(db, lo, hi, UNWIND) ==
    IF lo > hi
      THEN [db |-> db, result |-> "Ok",
            bundle |-> [state |-> EmptyTable, reverts |-> EmptyTable,
                        receipts |-> <<>>, first_block |-> 0]]
    ELSE
      LET block_bodies == get_or_take(db.BlockBodyIndices, lo, hi, FALSE).items
      IN
      IF block_bodies = <<>>
        THEN [db |-> db, result |-> "Panic",
              bundle |-> [state |-> EmptyTable, reverts |-> EmptyTable,
                          receipts |-> <<>>, first_block |-> lo]]
      ELSE
        LET from_transaction_num == first_tx_num(block_bodies[1][2])
            to_transaction_num == last_tx_num(block_bodies[Len(block_bodies)][2])
            storage_changeset == get_or_take_changeset(db.StorageChangeSets, lo, hi, UNWIND)
            account_changeset == get_or_take_changeset(db.AccountChangeSets, lo, hi, UNWIND)
            d1 == [db EXCEPT !.StorageChangeSets = storage_changeset.table,
                             !.AccountChangeSets = account_changeset.table]
            state1 == AddAccountChanges(EmptyTable, d1.PlainAccountState,
                                        Reverse(account_changeset.items))
            state == AddStorageChanges(state1, d1.PlainAccountState, d1.PlainStorageState,
                                       Reverse(storage_changeset.items))
            reverts == AddStorageReverts(
                           AddAccountReverts(EmptyTable, Reverse(account_changeset.items)),
                           Reverse(storage_changeset.items))
            d2 == IF UNWIND THEN RevertPlainState(d1, state, SortedSeq(DOMAIN state)) ELSE d1
            receipts == get_or_take(d2.Receipts, from_transaction_num, to_transaction_num,
                                    UNWIND)
        IN  [db |-> [d2 EXCEPT !.Receipts = receipts.table],
             result |-> "Ok",
             bundle |-> [state |-> state, reverts |-> reverts,
                         receipts |-> PartitionReceipts(block_bodies, receipts.items),
                         first_block |-> lo]]


\* ----------------------------------------------------- block range reader
\* The two-pointer scan for transactions without a stored sender; entries
\* are <<position in transactions, tx number, transaction>>.
RECURSIVE MissingSenders(_, _, _)
MissingSenders(transactions, senders, i) ==
    IF i > Len(transactions) THEN <<>>
    ELSE IF senders /= <<>> /\ Head(senders)[1] = transactions[i][1]
      THEN MissingSenders(transactions, Tail(senders), i + 1)
    ELSE <<<<i, transactions[i][1], transactions[i][2]>>>>
             \o MissingSenders(transactions, senders, i + 1)

\* A recovery that yields a signer for every signature.
RecoverSignersAlways(txs) == Some([i \in 1..Len(txs) |-> Signer(txs[i])])

\* TransactionSigned::recover_signers: None when the signature of one of the
\* transactions does not recover.  The transactions of a block of salt
\* BadSignature carry such a signature.
BadSignature == 2
recover_signers(txs) ==
    IF \E i \in 1..Len(txs) : txs[i][2] = BadSignature THEN None
    ELSE Some([i \in 1..Len(txs) |-> Signer(txs[i])])

\* An insert that appends the element whatever the position.
InsertAtEnd(seq, i, e) == Append(seq, e)

\* Vec::insert at the (1-based) position i; it panics beyond the end.
InsertAt(seq, i, e) == SubSeq(seq, 1, i - 1) \o <<e>> \o SubSeq(seq, i, Len(seq))

RECURSIVE InsertRecovered(_, _, _)
InsertRecovered(senders, missing, recovered) ==
    IF missing = <<>> \/ recovered = <<>> THEN [senders |-> senders, panic |-> FALSE]
    ELSE IF Head(missing)[1] > Len(senders) + 1 THEN [senders |-> senders, panic |-> TRUE]
    ELSE InsertRecovered(
             InsertAt(senders, Head(missing)[1], <<Head(missing)[2], Head(recovered)>>),
             Tail(missing), Tail(recovered))

\* A take that leaves the hash index of the taken transactions in place.
KeepHashes(t, transactions) == t

RECURSIVE DeleteHashes(_, _)
DeleteHashes(t, transactions) ==
    IF transactions = <<>> THEN t
    ELSE DeleteHashes(Delete(t, TxHash(Head(transactions)[2])), Tail(transactions))

\* The merge of transactions and senders into one block, for tx_count slots.
RECURSIVE MergeOneBlock(_, _, _)
MergeOneBlock(transactions, senders, count) ==
    IF count = 0
      THEN [result |-> "Ok", txs |-> <<>>, transactions |-> transactions, senders |-> senders]
    ELSE IF transactions = <<>> /\ senders = <<>>
      THEN [result |-> "BlockBodyTransactionCount", txs |-> <<>>,
            transactions |-> transactions, senders |-> senders]
    ELSE IF transactions = <<>> \/ senders = <<>> \/ Head(transactions)[1] /= Head(senders)[1]
      THEN [result |-> "MismatchOfTransactionAndSenderId", txs |-> <<>>,
            transactions |-> transactions, senders |-> senders]
    ELSE LET rest == MergeOneBlock(Tail(transactions), Tail(senders), count - 1)
         IN  [rest EXCEPT !.txs = <<<<Head(transactions)[2], Head(senders)[2]>>>> \o @]

RECURSIVE MergeBlocks(_, _, _)
MergeBlocks(block_bodies, transactions, senders) ==
    IF block_bodies = <<>> THEN [result |-> "Ok", block_tx |-> <<>>]
    ELSE
      LET one == MergeOneBlock(transactions, senders, Head(block_bodies)[2].tx_count)
      IN  IF one.result /= "Ok" THEN [result |-> one.result, block_tx |-> <<>>]
          ELSE LET rest == MergeBlocks(Tail(block_bodies), one.transactions, one.senders)
               IN  IF rest.result /= "Ok" THEN rest
                   ELSE [rest EXCEPT !.block_tx = <<<<Head(block_bodies)[1], one.txs>>>> \o @]

\* get_take_block_transaction_range::<TAKE>(lo..=hi): [db, result, block_tx].
get_take_block_transaction_range(db, lo, hi, take) ==
    LET block_bodies == get_or_take(db.BlockBodyIndices, lo, hi, FALSE).items
    IN
    IF block_bodies = <<>> THEN [db |-> db, result |-> "Ok", block_tx |-> <<>>]
    ELSE
      LET first_transaction == first_tx_num(block_bodies[1][2])
          last_transaction == last_tx_num(block_bodies[Len(block_bodies)][2])
      IN
      IF last_transaction < first_transaction
        THEN [db |-> db, result |-> "Ok",
              block_tx |-> [i \in 1..Len(block_bodies) |-> <<block_bodies[i][1], <<>>>>]]
      ELSE
        LET txs == get_or_take(db.Transactions, first_transaction, last_transaction, take)
            snd == get_or_take(db.TransactionSenders, first_transaction, last_transaction, take)
            d1 == [db EXCEPT !.Transactions = txs.table, !.TransactionSenders = snd.table]
            transactions == txs.items
            missing == MissingSenders(transactions, snd.items, 1)
            recovered == recover_signers([i \in 1..Len(missing) |-> missing[i][3]])
            fixed == IF Len(snd.items) /= Len(transactions) /\ IsSome(recovered)
                       THEN InsertRecovered(snd.items, missing, Unwrap(recovered))
                       ELSE [senders |-> snd.items, panic |-> FALSE]
            d2 == IF take
                    THEN [d1 EXCEPT
                            !.TransactionHashNumbers = DeleteHashes(@, transactions),
                            !.TransactionBlocks =
                                IF transactions /= <<>>
                                  THEN get_or_take(@, transactions[1][1],
                                           transactions[Len(transactions)][1], TRUE).table
                                  ELSE @]
                    ELSE d1
            merged == MergeBlocks(block_bodies, transactions, fixed.senders)
        IN  IF Len(snd.items) /= Len(transactions) /\ IsNone(recovered)
              THEN [db |-> d1, result |-> "SenderRecoveryError", block_tx |-> <<>>]
            ELSE IF fixed.panic
              THEN [db |-> d1, result |-> "Panic", block_tx |-> <<>>]
            ELSE [db |-> d2, result |-> merged.result, block_tx |-> merged.block_tx]


RECURSIVE DeleteHeaderNumbers(_, _)
DeleteHeaderNumbers(t, block_header_hashes) ==
    IF block_header_hashes = <<>> THEN t
    ELSE DeleteHeaderNumbers(Delete(t, Head(block_header_hashes)[2]),
                             Tail(block_header_hashes))

\* The izip! merge of headers, hashes and transactions into blocks; ommers
\* and withdrawals rows are consumed when their block number matches.
RECURSIVE AssembleBlocks(_, _, _, _, _)
AssembleBlocks(headers, hashes, block_tx, ommers, withdrawals) ==
    IF headers = <<>> \/ hashes = <<>> \/ block_tx = <<>> THEN <<>>
    ELSE
      LET main_block_number == Head(headers)[1]
          header == Head(headers)[2]
          has_ommers == ommers /= <<>> /\ Head(ommers)[1] = main_block_number
          shanghai == is_shanghai_active_at_timestamp(header.timestamp)
          has_withdrawals == /\ shanghai
                             /\ withdrawals /= <<>>
                             /\ Head(withdrawals)[1] = main_block_number
          txs == Head(block_tx)[2]
      IN  <<[header |-> header,
             hash |-> Head(hashes)[2],
             body |-> [i \in 1..Len(txs) |-> txs[i][1]],
             senders |-> [i \in 1..Len(txs) |-> txs[i][2]],
             ommers |-> IF has_ommers THEN Head(ommers)[2] ELSE <<>>,
             withdrawals |-> IF ~shanghai THEN None
                             ELSE IF has_withdrawals THEN Some(Head(withdrawals)[2])
                             ELSE Some(<<>>)]>>
          \o AssembleBlocks(Tail(headers), Tail(hashes), Tail(block_tx),
                            IF has_ommers THEN Tail(ommers) ELSE ommers,
                            IF has_withdrawals THEN Tail(withdrawals) ELSE withdrawals)

\* get_take_block_range::<TAKE>(lo..=hi): [db, result, blocks].
get_take_block_range(db, lo, hi, take) ==
    LET block_headers == get_or_take(db.Headers, lo, hi, take)
        block_header_hashes == get_or_take(db.CanonicalHeaders, lo, hi, take)
        block_ommers == get_or_take(db.BlockOmmers, lo, hi, take)
        block_withdrawals == get_or_take(db.BlockWithdrawals, lo, hi, take)
        \* the handler from the read of the transactions on
        Assemble(tx) ==
            IF tx.result /= "Ok" THEN [db |-> tx.db, result |-> tx.result, blocks |-> <<>>]
            ELSE [db |-> IF take
                           THEN [tx.db EXCEPT
                                   !.HeaderTerminalDifficulties =
                                       get_or_take(@, lo, hi, TRUE).table,
                                   !.HeaderNumbers =
                                       DeleteHeaderNumbers(@, block_header_hashes.items)]
                           ELSE tx.db,
                  result |-> "Ok",
                  blocks |-> AssembleBlocks(block_headers.items, block_header_hashes.items,
                                            tx.block_tx, block_ommers.items,
                                            block_withdrawals.items)]
    IN
    IF block_headers.items = <<>> THEN [db |-> db, result |-> "Ok", blocks |-> <<>>]
    ELSE Assemble(get_take_block_transaction_range(
                      [db EXCEPT !.Headers = block_headers.table,
                                 !.CanonicalHeaders = block_header_hashes.table,
                                 !.BlockOmmers = block_ommers.table,
                                 !.BlockWithdrawals = block_withdrawals.table],
                      lo, hi, take))

\* ------------------------------------------- unwind / append coordinator
EmptyChain == [blocks |-> <<>>, state |-> EmptyTable, reverts |-> EmptyTable,
               receipts |-> <<>>]

\* The same steps, with the trie updates flushed before the roots are compared.
UnwindHashesAndHistoryFlushingFirst(db, lo, hi) ==
    LET parent_number == IF lo = 0 THEN 0 ELSE lo - 1
        CompareRoot(d, computed, parent) ==
            IF IsNone(parent) THEN [db |-> d, result |-> "HeaderNotFound"]
            ELSE IF computed.root /= Unwrap(parent).state_root
              THEN [db |-> flush(d, computed.trie_updates),
                    result |-> IF IsNone(block_hash(d, parent_number))
                                 THEN "HeaderNotFound" ELSE "UnwindStateRootMismatch"]
            ELSE [db |-> flush(d, computed.trie_updates), result |-> "Ok"]
        AfterStorageHistory(ah, sh, hi2) ==
            IF hi2.result /= "Ok" THEN hi2
            ELSE CompareRoot(hi2.db,
                     root_with_updates(hi2.db,
                         (DOMAIN ah.hashed_accounts) \cup (DOMAIN sh.hashed_storage_keys),
                         sh.hashed_storage_keys),
                     header_by_number(hi2.db, parent_number))
        AfterStorageHashing(ah, sh) ==
            AfterStorageHistory(ah, sh, unwind_storage_history_indices(sh.db, lo, hi))
        AfterAccountHistory(ah, hi1) ==
            IF hi1.result /= "Ok" THEN hi1
            ELSE AfterStorageHashing(ah, unwind_storage_hashing(hi1.db, lo, hi))
        AfterAccountHashing(ah) ==
            AfterAccountHistory(ah, unwind_account_history_indices(ah.db, lo, hi))
    IN  AfterAccountHashing(unwind_account_hashing(db, lo, hi))

\* The destroyed accounts of the TAKE prologue: the hashed addresses that
\* unwind_account_hashing returned without an account.
destroyed_accounts(hashed_addresses) ==
    {hashed_address \in DOMAIN hashed_addresses : IsNone(hashed_addresses[hashed_address])}

\* The TAKE prologue of get_or_take_block_and_execution_range: unwind the
\* hashed tables and the history indices, recompute the root and compare it
\* with the parent header's.  [db, result].  Each step is an operator over
\* the results of the steps before it, in the order of the code.
UnwindHashesAndHistory(db, lo, hi) ==
    LET parent_number == IF lo = 0 THEN 0 ELSE lo - 1
        CompareRoot(d, computed, parent) ==
            IF IsNone(parent) THEN [db |-> d, result |-> "HeaderNotFound"]
            ELSE IF computed.root /= Unwrap(parent).state_root
              THEN [db |-> d,
                    result |-> IF IsNone(block_hash(d, parent_number))
                                 THEN "HeaderNotFound" ELSE "UnwindStateRootMismatch"]
            ELSE [db |-> flush(d, computed.trie_updates), result |-> "Ok"]
        AfterStorageHistory(ah, sh, hi2) ==
            IF hi2.result /= "Ok" THEN hi2
            ELSE CompareRoot(hi2.db,
                     root_with_updates(hi2.db,
                         (DOMAIN ah.hashed_accounts) \cup (DOMAIN sh.hashed_storage_keys),
                         sh.hashed_storage_keys),
                     header_by_number(hi2.db, parent_number))
        AfterStorageHashing(ah, sh) ==
            AfterStorageHistory(ah, sh, unwind_storage_history_indices(sh.db, lo, hi))
        AfterAccountHistory(ah, hi1) ==
            IF hi1.result /= "Ok" THEN hi1
            ELSE AfterStorageHashing(ah, unwind_storage_hashing(hi1.db, lo, hi))
        AfterAccountHashing(ah) ==
            AfterAccountHistory(ah, unwind_account_history_indices(ah.db, lo, hi))
    IN  AfterAccountHashing(unwind_account_hashing(db, lo, hi))

\* get_or_take_block_and_execution_range::<TAKE>(lo..=hi): [db, result, chain].
get_or_take_block_and_execution_range(db, lo, hi, take) ==
    LET Finish(blocks, execution_state) ==
            IF execution_state.result /= "Ok"
              THEN [db |-> execution_state.db, result |-> execution_state.result,
                    chain |-> EmptyChain]
            ELSE [db |-> IF take /\ blocks.blocks /= <<>>
                           THEN update_pipeline_stages(
                                    [execution_state.db EXCEPT
                                       !.BlockBodyIndices = get_or_take(@, lo, hi, TRUE).table],
                                    IF blocks.blocks[1].header.number = 0 THEN 0
                                    ELSE blocks.blocks[1].header.number - 1, TRUE)
                         ELSE IF take
                           THEN [execution_state.db EXCEPT
                                   !.BlockBodyIndices = get_or_take(@, lo, hi, TRUE).table]
                         ELSE execution_state.db,
                  result |-> "Ok",
                  chain |-> [blocks |-> blocks.blocks,
                             state |-> execution_state.bundle.state,
                             reverts |-> execution_state.bundle.reverts,
                             receipts |-> execution_state.bundle.receipts]]
        WithBlocks(blocks) ==
            IF blocks.result /= "Ok"
              THEN [db |-> blocks.db, result |-> blocks.result, chain |-> EmptyChain]
            ELSE Finish(blocks, unwind_or_peek_state(blocks.db, lo, hi, take))
        WithHashes(pre) ==
            IF pre.result /= "Ok"
              THEN [db |-> pre.db, result |-> pre.result, chain |-> EmptyChain]
            ELSE WithBlocks(get_take_block_range(pre.db, lo, hi, take))
    IN  WithHashes(IF take THEN UnwindHashesAndHistory(db, lo, hi)
                   ELSE [db |-> db, result |-> "Ok"])

\* append_blocks_with_state(blocks, state, hashed_state, trie_updates,
\* prune_modes); `changes` holds the per-block changes the bundle state, the
\* hashed post state and the trie updates are all derived from.
RECURSIVE InsertBlocks(_, _, _)
InsertBlocks(db, blocks, prune_modes) ==
    IF blocks = <<>> THEN db
    ELSE InsertBlocks(insert_block(db, Head(blocks), prune_modes), Tail(blocks), prune_modes)

append_blocks_with_state(db, blocks, changes, prune_modes) ==
    IF blocks = <<>> THEN db
    ELSE
      LET first_number == blocks[1].header.number
          last_number == blocks[Len(blocks)].header.number
          d1 == InsertBlocks(db, blocks, prune_modes)
          d2 == write_to_storage(d1, first_number, changes)
          d3 == write_to_db(d2, changes)
          d4 == flush(d3, [accounts |-> d3.HashedAccounts, storages |-> d3.HashedStorages])
          d5 == update_history_indices(d4, first_number, last_number)
      IN  update_pipeline_stages(d5, last_number, FALSE)


\* ------------------------------------------------------------------ inputs
AccountOptions == {None} \cup {Some(v) : v \in AccountValues}

\* Per-block changes touching exactly the accounts in A and the slots in S.
ChangesOn(A, S) == [acct : [A -> AccountOptions], stor : [S -> StorageValues]]
NoChanges == [acct |-> EmptyTable, stor |-> EmptyTable]

\* Every per-block change that touches at most one key.
SingleKeyChanges ==
    {NoChanges}
      \cup UNION {ChangesOn({a}, {}) : a \in Addresses}
      \cup UNION {ChangesOn({}, {k}) : k \in StorageKeys}

\* A block on top of the database: its attributes are
\* [salt, tx_count, extras]; extras = 1 gives it an ommer, a withdrawal,
\* difficulty 1 and a Shanghai timestamp.  Its state root is the root of the
\* hashed state the changes up to and including the block lead to.
BlockOf(number, attrs, state_root) ==
    LET body == [i \in 1..attrs.tx_count |-> <<number, attrs.salt, i>>]
    IN  [header |-> [number |-> number, salt |-> attrs.salt,
                     difficulty |-> attrs.extras, timestamp |-> attrs.extras,
                     state_root |-> state_root],
         body |-> body,
         senders |-> [i \in 1..Len(body) |-> Signer(body[i])],
         ommers |-> IF attrs.extras = 1 THEN <<number>> ELSE <<>>,
         withdrawals |-> IF attrs.extras = 1 THEN Some(<<number>>) ELSE None]

PostRoot(db, changes) ==
    LET d == write_to_db(db, changes) IN StateRootOf(d.HashedAccounts, d.HashedStorages)

BlocksOf(db, first, attrs, changes) ==
    [i \in 1..Len(attrs) |->
        BlockOf(first + i - 1, attrs[i], PostRoot(db, SubSeq(changes, 1, i)))]

NoPruning == [sender_recovery_full |-> FALSE, transaction_lookup_full |-> FALSE]
FullPruning == [sender_recovery_full |-> TRUE, transaction_lookup_full |-> TRUE]

\* The block number following the tip (0 on an empty database).
NextBlockNumber == IF DOMAIN CanonicalHeaders = {} THEN 0 ELSE last_block_number(DB) + 1

Healthy == lastOp.result = "Ok"

\* No call of transaction_hashes_by_range is under way.
NoHashing == [active |-> FALSE, threads |-> 0, chunks |-> <<>>, started |-> <<>>,
              open |-> <<>>, channels |-> <<>>, receivers |-> FALSE, position |-> 0,
              tx_list |-> <<>>]

\* ----------------------------------------------------------------- actions
Init ==
    /\ CanonicalHeaders = EmptyDB.CanonicalHeaders
    /\ Headers = EmptyDB.Headers
    /\ HeaderNumbers = EmptyDB.HeaderNumbers
    /\ HeaderTerminalDifficulties = EmptyDB.HeaderTerminalDifficulties
    /\ BlockOmmers = EmptyDB.BlockOmmers
    /\ BlockWithdrawals = EmptyDB.BlockWithdrawals
    /\ BlockBodyIndices = EmptyDB.BlockBodyIndices
    /\ Transactions = EmptyDB.Transactions
    /\ TransactionSenders = EmptyDB.TransactionSenders
    /\ TransactionHashNumbers = EmptyDB.TransactionHashNumbers
    /\ TransactionBlocks = EmptyDB.TransactionBlocks
    /\ Receipts = EmptyDB.Receipts
    /\ PlainAccountState = EmptyDB.PlainAccountState
    /\ PlainStorageState = EmptyDB.PlainStorageState
    /\ HashedAccounts = EmptyDB.HashedAccounts
    /\ HashedStorages = EmptyDB.HashedStorages
    /\ AccountChangeSets = EmptyDB.AccountChangeSets
    /\ StorageChangeSets = EmptyDB.StorageChangeSets
    /\ AccountsHistory = EmptyDB.AccountsHistory
    /\ StoragesHistory = EmptyDB.StoragesHistory
    /\ StageCheckpoints = EmptyDB.StageCheckpoints
    /\ TrieState = EmptyDB.TrieState
    /\ StaticFileHeaders = EmptyTable
    /\ staticWriter = EmptyTable
    /\ committed = EmptyDB
    /\ hashing = NoHashing
    /\ lastOp = [op |-> "init", lo |-> 0, hi |-> 0, result |-> "Ok", changed |-> 0,
                 full |-> FALSE, pruned |-> FALSE, info |-> None]
    /\ snapshot = EmptyDB

\* append_blocks_with_state of 1..MaxAppend blocks on top of the tip; block n
\* comes with one of the changes Changes[n].  lastOp.full says that the call
\* ran with sender recovery pruned in full, lastOp.pruned that some call since
\* the start did.
AppendBlocksWithState(max_block, Attrs, Changes, PruneModes) ==
    /\ Healthy
    /\ \E len \in 1..MaxAppend :
         /\ NextBlockNumber + len - 1 <= max_block
         /\ \E attrs \in [1..len -> Attrs],
               changes \in [1..len -> UNION {Changes[NextBlockNumber + i - 1] : i \in 1..len}],
               prune_modes \in PruneModes :
              /\ \A i \in 1..len : changes[i] \in Changes[NextBlockNumber + i - 1]
              /\ SetDB(append_blocks_with_state(
                           DB, BlocksOf(DB, NextBlockNumber, attrs, changes),
                           changes, prune_modes))
              /\ lastOp' = [op |-> "append", lo |-> NextBlockNumber,
                            hi |-> NextBlockNumber + len - 1, result |-> "Ok",
                            changed |-> 0,
                            full |-> prune_modes.sender_recovery_full,
                            pruned |-> lastOp.pruned \/ prune_modes.sender_recovery_full,
                            info |-> None]
              /\ snapshot' = DB

\* The number of changeset rows of lo..=hi.
ChangedRows(lo, hi) ==
    Cardinality(ChangeSetKeys(AccountChangeSets, lo, hi))
      + Cardinality(ChangeSetKeys(StorageChangeSets, lo, hi))

\* get_or_take_block_and_execution_range::<true> of a range that ends at the
\* tip and keeps block 0.  When it undoes the append just before it, lastOp
\* records how many changeset rows the range had; when it follows an
\* insert_hashes, lastOp records that and how many changeset rows had a row of
\* the same key in an earlier block of the range.
TakeBlockAndExecutionRange ==
    /\ Healthy
    /\ DOMAIN CanonicalHeaders /= {}
    /\ \E lo \in 1..last_block_number(DB) :
         LET hi == last_block_number(DB)
             undo == lastOp.op = "append" /\ lastOp.lo = lo /\ lastOp.hi = hi
             hashed == lastOp.op = "insert_hashes"
             rows == ChangeSetKeys(AccountChangeSets, lo, hi)
                        \cup ChangeSetKeys(StorageChangeSets, lo, hi)
             repeated == {k \in rows : \E j \in rows : j[1] < k[1] /\ Tail(j) = Tail(k)}
             Commit(r) ==
                 /\ SetDB(r.db)
                 /\ lastOp' = [op |-> IF undo THEN "roundtrip" ELSE "take",
                               lo |-> lo, hi |-> hi, result |-> r.result,
                               changed |-> IF undo \/ hashed THEN ChangedRows(lo, hi) ELSE 0,
                               full |-> FALSE, pruned |-> lastOp.pruned,
                               info |-> IF hashed THEN Some(Cardinality(repeated)) ELSE None]
         IN  /\ Commit(get_or_take_block_and_execution_range(DB, lo, hi, TRUE))
             /\ snapshot' = IF undo THEN snapshot ELSE EmptyDB

\* -------------------------------------------------- specification: state
\* Blocks of one transaction; every state change that touches one key.
StateAttrs == {[salt |-> 0, tx_count |-> 1, extras |-> 0]}
StateChanges == [n \in 0..MaxBlock |-> SingleKeyChanges]

AppendState == AppendBlocksWithState(MaxBlock, StateAttrs, StateChanges, {NoPruning})

NextState == AppendState \/ TakeBlockAndExecutionRange

SpecState == Init /\ [][NextState]_vars


\* -------------------------------------------------- specification: chain
\* Blocks with 0..MaxTxCount transactions, and a block with an ommer, a
\* withdrawal and difficulty, written with and without pruning; no state
\* changes.
ChainAttrs ==
    {[salt |-> 0, tx_count |-> c, extras |-> 0] : c \in 0..MaxTxCount}
      \cup {[salt |-> 0, tx_count |-> 1, extras |-> 1]}
ChainChanges == [n \in 0..MaxBlock |-> {NoChanges}]

AppendChain ==
    AppendBlocksWithState(MaxBlock, ChainAttrs, ChainChanges, {NoPruning, FullPruning})

NextChain == AppendChain \/ TakeBlockAndExecutionRange

SpecChain == Init /\ [][NextChain]_vars

\* ------------------------------------------------ specification: history
\* Blocks 0..MaxHistoryBlock without transactions; block n writes n + 1 to
\* the accounts and slots it touches.
HistoryAttrs == {[salt |-> 0, tx_count |-> 0, extras |-> 0]}
Touch(n, A, S) == [acct |-> [a \in A |-> Some(n + 1)], stor |-> [k \in S |-> n + 1]]
HistoryChanges ==
    [n \in 0..MaxHistoryBlock |->
        {NoChanges, Touch(n, {1}, {}), Touch(n, {1, 2}, {}), Touch(n, {1}, StorageKeys)}]

AppendHistory ==
    AppendBlocksWithState(MaxHistoryBlock, HistoryAttrs, HistoryChanges, {NoPruning})

NextHistory == AppendHistory \/ TakeBlockAndExecutionRange

SpecHistory == Init /\ [][NextHistory]_vars

\* ------------------------------------------------- specification: stages
\* Blocks of one transaction, and stages that save their own checkpoints.
StagesAttrs == {[salt |-> 0, tx_count |-> 1, extras |-> 0]}
SavingStages == {"Execution", "Finish"}

AppendStages ==
    AppendBlocksWithState(MaxBlock, StagesAttrs, ChainChanges, {NoPruning})

\* save_stage_checkpoint by a stage, with or without progress of its own.
SaveStageCheckpoint ==
    /\ Healthy
    /\ \E id \in SavingStages, block_number \in 0..MaxBlock, progress \in {0, 1} :
         /\ SetDB(save_stage_checkpoint(
                      DB, id, [block_number |-> block_number, progress |-> progress]))
         /\ lastOp' = [op |-> "save", lo |-> block_number, hi |-> block_number,
                       result |-> "Ok", changed |-> 0,
                       full |-> FALSE, pruned |-> lastOp.pruned, info |-> None]
         /\ snapshot' = EmptyDB

\* get_or_take_block_and_execution_range::<true> of the whole chain 0..=tip,
\* or of the empty range tip+1..=tip.
TakeBoundaryRange ==
    /\ Healthy
    /\ DOMAIN CanonicalHeaders /= {}
    /\ \E lo \in {0, last_block_number(DB) + 1} :
         LET hi == last_block_number(DB)
             Commit(r) ==
                 /\ SetDB(r.db)
                 /\ lastOp' = [op |-> "take", lo |-> lo, hi |-> hi, result |-> r.result,
                               changed |-> 0, full |-> FALSE, pruned |-> lastOp.pruned,
                               info |-> None]
         IN  /\ Commit(get_or_take_block_and_execution_range(DB, lo, hi, TRUE))
             /\ snapshot' = EmptyDB

NextStages ==
    AppendStages \/ TakeBlockAndExecutionRange \/ SaveStageCheckpoint \/ TakeBoundaryRange

SpecStages == Init /\ [][NextStages]_vars

\* ------------------------------------------------- specification: blocks
\* insert_block of any block number, and get_take_block_range::<true> of any
\* range, in any order; the blocks carry no transactions.
BlocksAttrs == [salt : Salts, tx_count : {0}, extras : {0}]

InsertBlock ==
    /\ Healthy
    /\ \E number \in 0..MaxBlock, attrs \in BlocksAttrs :
         /\ SetDB(insert_block(DB, BlockOf(number, attrs, StateRootOf(EmptyTable, {})),
                               NoPruning))
         /\ lastOp' = [op |-> "insert_block", lo |-> 0, hi |-> 0, result |-> "Ok",
                       changed |-> 0, full |-> FALSE, pruned |-> lastOp.pruned, info |-> None]
         /\ snapshot' = EmptyDB

GetTakeBlockRange ==
    /\ Healthy
    /\ \E lo \in 0..MaxBlock, hi \in 0..MaxBlock :
         LET Commit(r) ==
                 /\ SetDB(r.db)
                 /\ lastOp' = [op |-> "take_block_range", lo |-> 0, hi |-> 0,
                               result |-> r.result, changed |-> 0,
                               full |-> FALSE, pruned |-> lastOp.pruned, info |-> None]
         IN  /\ lo <= hi
             /\ Commit(get_take_block_range(DB, lo, hi, TRUE))
             /\ snapshot' = EmptyDB

NextBlocks == InsertBlock \/ GetTakeBlockRange

SpecBlocks == Init /\ [][NextBlocks]_vars

\* ------------------------------------------------- specification: hashes
\* The staged pipeline: a block is inserted and executed (its changesets and
\* plain state written) without touching the hashed tables; insert_hashes
\* later brings the hashed tables and the trie up to date over a range of
\* blocks; the tip can be unwound at any time.  A block creates or destroys
\* account 1, sets or clears the slot of StorageKeys, or changes nothing.
HashChanges ==
    [n \in 0..MaxBlock |->
        {NoChanges}
          \cup {[acct |-> [a \in {1} |-> o], stor |-> EmptyTable] :
                   o \in {None, Some(Min(AccountValues))}}
          \cup {[acct |-> EmptyTable, stor |-> [k \in StorageKeys |-> v]] :
                   v \in {0, Max(StorageValues)}}]

\* The state root of the plain state: the root of its hashed image.
PlainRoot(db) ==
    StateRootOf(
        [ha \in {keccak256(a) : a \in DOMAIN db.PlainAccountState} |->
            db.PlainAccountState[CHOOSE a \in DOMAIN db.PlainAccountState : keccak256(a) = ha]],
        {<<keccak256(r[1]), keccak256(r[2]), r[3]>> : r \in db.PlainStorageState})

\* insert_block of the block after the tip, then write_to_storage of its
\* execution outcome.  The header carries the state root of the state the
\* block leads to.
ExecuteBlock ==
    /\ Healthy
    /\ NextBlockNumber <= MaxBlock
    /\ \E attrs \in StateAttrs, c \in HashChanges[NextBlockNumber] :
         LET state_root == PlainRoot(write_to_storage(DB, NextBlockNumber, <<c>>))
             block == BlockOf(NextBlockNumber, attrs, state_root)
         IN  /\ SetDB(write_to_storage(insert_block(DB, block, NoPruning),
                                       NextBlockNumber, <<c>>))
             /\ lastOp' = [op |-> "execute", lo |-> NextBlockNumber,
                           hi |-> NextBlockNumber, result |-> "Ok", changed |-> 0,
                           full |-> FALSE, pruned |-> lastOp.pruned, info |-> None]
             /\ snapshot' = EmptyDB

\* insert_hashes over a range of stored blocks, with the hash of the last
\* block of the range; the expected root is the state root of that block's
\* header or of the header below the range.  lastOp.info records the two
\* arguments and the payload of the error, if any; after an error `snapshot`
\* holds the tables as they were before the call.
InsertHashes ==
    /\ Healthy
    /\ DOMAIN CanonicalHeaders /= {}
    /\ \E lo \in 0..last_block_number(DB), hi \in 0..last_block_number(DB),
          of \in DOMAIN Headers :
         LET Commit(r) ==
                 /\ SetDB(r.db)
                 /\ snapshot' = IF r.result = "Ok" THEN EmptyDB ELSE DB
                 /\ lastOp' = [op |-> "insert_hashes", lo |-> lo, hi |-> hi,
                               result |-> r.result, changed |-> 0,
                               full |-> FALSE, pruned |-> lastOp.pruned,
                               info |-> Some([end_block_hash |-> CanonicalHeaders[hi],
                                              expected_state_root |-> Headers[of].state_root,
                                              error |-> IF r.result = "Ok" THEN None
                                                        ELSE Some([got |-> r.got,
                                                                   expected |-> r.expected,
                                                                   block_number |-> r.block_number,
                                                                   block_hash |-> r.block_hash])])]
         IN  /\ lo <= hi
             /\ of = hi \/ of + 1 = lo
             /\ Commit(insert_hashes(DB, lo, hi, CanonicalHeaders[hi],
                                     Headers[of].state_root))

NextHashes == ExecuteBlock \/ InsertHashes \/ TakeBlockAndExecutionRange

SpecHashes == Init /\ [][NextHashes]_vars

\* ------------------------------------------------ specification: observe
\* Appends whose blocks carry a transaction and change an account or a slot,
\* and tip unwinds: the states the observers are run on.
AppendObserved == AppendBlocksWithState(MaxBlock, StateAttrs, HashChanges, {NoPruning})

NextObserve == AppendObserved \/ TakeBlockAndExecutionRange

SpecObserve == Init /\ [][NextObserve]_vars

\* ----------------------------------------------- specification: sync gap
\* The headers stage appends the header of the next block to the Headers
\* static file, through the writer of the static-file provider.
AppendStaticHeader ==
    /\ Healthy
    /\ \E salt \in Salts :
         LET number == IF DOMAIN StaticFileHeaders = {} THEN 0
                       ELSE Max(DOMAIN StaticFileHeaders) + 1
             header == [number |-> number, salt |-> salt, difficulty |-> 0,
                        timestamp |-> 0, state_root |-> StateRootOf(EmptyTable, {})]
         IN  /\ number <= MaxBlock + 1
             /\ StaticFileHeaders' =
                    Put(StaticFileHeaders, number, [header |-> header, hash |-> hash_slow(header)])
             /\ lastOp' = [op |-> "append_header", lo |-> number, hi |-> number,
                           result |-> "Ok", changed |-> 0, full |-> FALSE,
                           pruned |-> lastOp.pruned, info |-> None]
    /\ UNCHANGED <<tables, staticWriter, committed, hashing, snapshot>>

\* sync_gap at the start of the headers stage, in Continuous mode or with a
\* tip, for the block the caller's checkpoint names.  lastOp.info records the
\* mode, the file as it was before the call, and what the call returned.
SyncGap ==
    /\ Healthy
    /\ \E highest_uninterrupted_block \in 0..MaxBlock,
          mode \in {[kind |-> "Continuous", tip |-> None]}
                      \cup {[kind |-> "Tip", tip |-> Some(<<"tip", t>>)] : t \in Salts} :
         LET Commit(r) ==
                 /\ StaticFileHeaders' = r.static_headers
                 /\ lastOp' = [op |-> "sync_gap", lo |-> highest_uninterrupted_block,
                               hi |-> highest_uninterrupted_block, result |-> r.result,
                               changed |-> 0, full |-> FALSE, pruned |-> lastOp.pruned,
                               info |-> Some([mode |-> mode, before |-> StaticFileHeaders,
                                              number |-> r.number, gap |-> r.gap])]
         IN  Commit(sync_gap(StaticFileHeaders, mode, highest_uninterrupted_block))
    /\ UNCHANGED <<tables, staticWriter, committed, hashing, snapshot>>

NextSyncGap == AppendStaticHeader \/ SyncGap

SpecSyncGap == Init /\ [][NextSyncGap]_vars

\* ------------------------------------------------- specification: commit
\* insert_historical_block.  `written` is what the Headers writer holds: the
\* rows of the file and the rows appended since the last flush.  The file
\* has no rows yet when its segment header has no block_end; the writer takes
\* the header of the block after its last one only ("static files require no
\* gaps").  A backfilled row has a zero difficulty and the zero hash, <<>>.
insert_historical_block(db, written, block, prune_modes) ==
    LET number == block.header.number
        parent_ttd == header_td_by_number(db, number - 1)
        ttd == IF number = 0 THEN block.header.difficulty
               ELSE (IF IsSome(parent_ttd) THEN Unwrap(parent_ttd) ELSE 0)
                    + block.header.difficulty
        backfill == IF DOMAIN written = {}
                      THEN [block_number \in 0..(number - 1) |->
                               [header |-> [block.header EXCEPT !.number = block_number],
                                ttd |-> 0, hash |-> <<>>]]
                      ELSE EmptyTable
        expected == IF DOMAIN written = {} THEN number ELSE Max(DOMAIN written) + 1
    IN  IF number /= expected
          THEN [db |-> db, appended |-> backfill,
                result |-> "UnexpectedStaticFileBlockNumber"]
          ELSE [db |-> insert_block(db, block, prune_modes),
                appended |-> Put(backfill, number,
                                 [header |-> block.header, ttd |-> ttd,
                                  hash |-> hash_slow(block.header)]),
                result |-> "Ok"]

\* DatabaseProvider::commit: the commit of the database transaction.
commit(db) == db

\* What the Headers writer holds.
Written == [n \in DOMAIN StaticFileHeaders \cup DOMAIN staticWriter |->
               IF n \in DOMAIN staticWriter THEN staticWriter[n] ELSE StaticFileHeaders[n]]

\* insert_historical_block of the block after the tip, or of block 1 on an
\* empty database.
InsertHistoricalBlock ==
    /\ Healthy
    /\ \E attrs \in BlocksAttrs,
          number \in {NextBlockNumber} \cup (IF DOMAIN CanonicalHeaders = {} THEN {1} ELSE {}) :
         LET Apply(r) ==
                 /\ SetTables(r.db)
                 /\ staticWriter' = [n \in DOMAIN staticWriter \cup DOMAIN r.appended |->
                                        IF n \in DOMAIN r.appended THEN r.appended[n]
                                        ELSE staticWriter[n]]
                 /\ lastOp' = [op |-> "insert_historical_block", lo |-> number,
                               hi |-> number, result |-> r.result, changed |-> 0,
                               full |-> FALSE, pruned |-> lastOp.pruned, info |-> None]
         IN  /\ number <= MaxBlock
             /\ Apply(insert_historical_block(
                          DB, Written, BlockOf(number, attrs, StateRootOf(EmptyTable, {})),
                          NoPruning))
    /\ UNCHANGED <<StaticFileHeaders, committed, hashing>>
    /\ snapshot' = EmptyDB

\* The commit of the Headers writer: the rows appended since the last one
\* become rows of the file.
CommitStaticFile ==
    /\ staticWriter /= EmptyTable
    /\ StaticFileHeaders' = Written
    /\ staticWriter' = EmptyTable
    /\ lastOp' = [op |-> "static_file_commit", lo |-> 0, hi |-> 0, result |-> lastOp.result,
                  changed |-> 0, full |-> FALSE, pruned |-> lastOp.pruned, info |-> None]
    /\ UNCHANGED <<tables, committed, hashing, snapshot>>

\* DatabaseProviderRW::commit, whatever the operation before it returned; the
\* next provider works on what was committed.  lastOp.info keeps the result
\* of the operation before the commit.
CommitProvider ==
    /\ lastOp.op \notin {"init", "commit", "drop", "crash"}
    /\ committed' = commit(DB)
    /\ lastOp' = [op |-> "commit", lo |-> 0, hi |-> 0, result |-> "Ok", changed |-> 0,
                  full |-> FALSE, pruned |-> lastOp.pruned, info |-> Some(lastOp.result)]
    /\ UNCHANGED <<tables, StaticFileHeaders, staticWriter, hashing, snapshot>>

\* The provider is dropped without a commit, or the process crashes: the
\* writes of the transaction are gone, and with a crash the rows the Headers
\* writer has not flushed.
DropProvider ==
    /\ lastOp.op \notin {"init", "commit", "drop", "crash"}
    /\ SetTables(committed)
    /\ \E crash \in BOOLEAN :
         /\ staticWriter' = IF crash THEN EmptyTable ELSE staticWriter
         /\ lastOp' = [op |-> IF crash THEN "crash" ELSE "drop", lo |-> 0, hi |-> 0,
                       result |-> "Ok", changed |-> 0, full |-> FALSE,
                       pruned |-> lastOp.pruned, info |-> Some(lastOp.result)]
    /\ UNCHANGED <<StaticFileHeaders, committed, hashing, snapshot>>

NextCommit ==
    \/ InsertHistoricalBlock
    \/ CommitStaticFile
    \/ CommitProvider
    \/ DropProvider

SpecCommit == Init /\ [][NextCommit]_vars

\* Blocks executed and hashed in a transaction that is committed or dropped.
NextPartial == ExecuteBlock \/ InsertHashes \/ CommitProvider \/ DropProvider

SpecPartial == Init /\ [][NextPartial]_vars

\* --------------------------------------- specification: parallel hashing
\* The threads of the rayon pool.
MaxThreads == 2

\* A receive that takes an empty channel for a closed one.
RecvWithoutBlocking(channel, sender_alive) ==
    IF channel /= <<>> THEN [kind |-> "Ok", message |-> Head(channel)]
    ELSE [kind |-> "Err"]

\* A receive that waits for a message on an empty channel whether or not the
\* sender is still there.
RecvWaitingForMessage(channel, sender_alive) ==
    IF channel /= <<>> THEN [kind |-> "Ok", message |-> Head(channel)]
    ELSE [kind |-> "Blocked"]

\* mpsc::Receiver::recv on a channel with one sender: the oldest message, an
\* error once the sender is dropped and the channel is empty; until then the
\* receiver blocks.
recv(channel, sender_alive) ==
    IF channel /= <<>> THEN [kind |-> "Ok", message |-> Head(channel)]
    ELSE IF sender_alive THEN [kind |-> "Blocked"]
    ELSE [kind |-> "Err"]

\* The call is over for the pool as well: the caller has returned and every
\* task has dropped its sender.
HashingSettled(h) ==
    IF ~h.receivers /\ \A c \in 1..Len(h.open) : ~h.open[c] THEN NoHashing ELSE h

\* transaction_hashes_by_range(start..end) up to the end of the loop over the
\* chunks: the rows of the range are cut into chunks of
\* max(range size / threads, 1), and each chunk goes to a task spawned onto
\* the pool with the sender of a channel of its own.  An entry of the walker
\* is <<tx number, transaction, read failed>>; at most one read fails.
SpawnHashTasks ==
    /\ Healthy
    /\ ~hashing.active
    /\ \E start \in 0..(MaxBlock + 2), end \in 0..(MaxBlock + 2), threads \in 1..MaxThreads :
         LET tx_range == start..(end - 1)
             tx_range_size == IF end > start THEN end - start ELSE 0
             chunk_size == Max({tx_range_size \div threads, 1})
         IN  /\ start <= end
             /\ \E failed \in {{}} \cup {{t} : t \in tx_range \cap DOMAIN Transactions} :
                  LET tx_walker ==
                          [i \in 1..Cardinality(tx_range \cap DOMAIN Transactions) |->
                              LET tx_id == SortedSeq(tx_range \cap DOMAIN Transactions)[i]
                              IN  <<tx_id, Transactions[tx_id], tx_id \in failed>>]
                      count == (Len(tx_walker) + chunk_size - 1) \div chunk_size
                      chunk(c) == SubSeq(tx_walker, (c - 1) * chunk_size + 1,
                                         Min({c * chunk_size, Len(tx_walker)}))
                  IN  hashing' = [active |-> TRUE, threads |-> threads,
                                  chunks |-> [c \in 1..count |-> chunk(c)],
                                  started |-> [c \in 1..count |-> FALSE],
                                  open |-> [c \in 1..count |-> TRUE],
                                  channels |-> [c \in 1..count |-> <<>>],
                                  receivers |-> TRUE, position |-> 1, tx_list |-> <<>>]
             /\ lastOp' = [op |-> "transaction_hashes_by_range", lo |-> start, hi |-> end,
                           result |-> "Running", changed |-> 0, full |-> FALSE,
                           pruned |-> lastOp.pruned, info |-> None]
    /\ UNCHANGED <<tables, StaticFileHeaders, staticWriter, committed, snapshot>>

\* A step of a spawned task: a free thread of the pool picks it up; it sends
\* the result of calculate_hash for its next entry, the hash with the entry's
\* number or the read error, and ignores what send returns: without a
\* receiver the message is lost; at the end of its chunk its sender is
\* dropped and its thread is free again.
HashTask ==
    /\ hashing.active
    /\ \E c \in 1..Len(hashing.chunks) :
         LET busy == {d \in 1..Len(hashing.chunks) : hashing.started[d] /\ hashing.open[d]}
             entry == Head(hashing.chunks[c])
         IN  \/ /\ ~hashing.started[c]
                /\ Cardinality(busy) < hashing.threads
                /\ hashing' = [hashing EXCEPT !.started[c] = TRUE]
             \/ /\ hashing.started[c]
                /\ hashing.chunks[c] /= <<>>
                /\ hashing' = [hashing EXCEPT
                                  !.chunks[c] = Tail(@),
                                  !.channels[c] =
                                      IF ~hashing.receivers THEN @
                                      ELSE IF entry[3] THEN Append(@, <<"DatabaseError">>)
                                      ELSE Append(@, <<TxHash(entry[2]), entry[1]>>)]
             \/ /\ hashing.started[c]
                /\ hashing.chunks[c] = <<>>
                /\ hashing.open[c]
                /\ hashing' = HashingSettled([hashing EXCEPT !.open[c] = FALSE])
    /\ UNCHANGED <<tables, StaticFileHeaders, staticWriter, committed, lastOp, snapshot>>

\* A step of the caller after the spawns: it receives from the channels one
\* after the other, each until its sender is gone, and returns the list; at
\* the first error it receives it returns the error, and the receivers are
\* dropped with the messages not yet received.
ReceiveHashes ==
    /\ hashing.active
    /\ hashing.receivers
    /\ IF hashing.position <= Len(hashing.channels)
         THEN LET received == recv(hashing.channels[hashing.position],
                                   hashing.open[hashing.position])
              IN  /\ received.kind /= "Blocked"
                  /\ IF received.kind = "Ok" /\ Len(received.message) = 1
                       THEN /\ hashing' =
                                  HashingSettled(
                                      [hashing EXCEPT
                                          !.receivers = FALSE,
                                          !.channels = [c \in DOMAIN @ |-> <<>>]])
                            /\ lastOp' = [lastOp EXCEPT !.result = received.message[1]]
                       ELSE /\ hashing' =
                                  IF received.kind = "Ok"
                                    THEN [hashing EXCEPT
                                             !.channels[hashing.position] = Tail(@),
                                             !.tx_list = Append(@, received.message)]
                                    ELSE [hashing EXCEPT !.position = @ + 1]
                            /\ lastOp' = lastOp
         ELSE /\ hashing' = HashingSettled([hashing EXCEPT !.receivers = FALSE])
              /\ lastOp' = [lastOp EXCEPT
                               !.result = "Ok",
                               !.info = Some([tx_list |-> hashing.tx_list,
                                              threads |-> hashing.threads,
                                              tasks |-> Len(hashing.chunks)])]
    /\ UNCHANGED <<tables, StaticFileHeaders, staticWriter, committed, snapshot>>

NextParallel == AppendStages \/ SpawnHashTasks \/ HashTask \/ ReceiveHashes

SpecParallel == Init /\ [][NextParallel]_vars

\* The threads of the pool run the tasks they picked up, and the caller runs
\* whenever its receive does not block.
SpecParallelFair == SpecParallel /\ WF_vars(HashTask) /\ WF_vars(ReceiveHashes)

\* ------------------------------------------------ specification: senders
\* Blocks of one transaction, with a signature that recovers or not; the
\* pruner deletes rows of Transactions (moved to a static file) or of
\* TransactionSenders; the transactions of a block range are read.
SendersAttrs == {[salt |-> s, tx_count |-> 1, extras |-> 0] : s \in {0, BadSignature}}

AppendSenders == AppendBlocksWithState(MaxBlock, SendersAttrs, ChainChanges, {NoPruning})

\* prune_table_with_range of Transactions or TransactionSenders, without a
\* limit and without a skip filter.
PruneRows ==
    /\ Healthy
    /\ \E lo \in 0..MaxBlock, hi \in 0..MaxBlock :
         LET limiter == [deleted_entries_limit |-> None, deleted_entries_count |-> 0]
             transactions == prune_table_with_range(Transactions, lo, hi, limiter, {})
             senders == prune_table_with_range(TransactionSenders, lo, hi, limiter, {})
         IN  /\ lo <= hi
             /\ \/ /\ transactions.deleted_entries > 0
                   /\ SetDB([DB EXCEPT !.Transactions = transactions.table])
                \/ /\ senders.deleted_entries > 0
                   /\ SetDB([DB EXCEPT !.TransactionSenders = senders.table])
             /\ lastOp' = [op |-> "prune", lo |-> lo, hi |-> hi, result |-> "Ok",
                           changed |-> 0, full |-> FALSE, pruned |-> lastOp.pruned,
                           info |-> None]
    /\ snapshot' = EmptyDB

\* get_take_block_transaction_range::<false> of stored blocks.  lastOp.info
\* records how many rows of Transactions and of TransactionSenders the tx
\* range of the blocks holds, how many tx numbers the block bodies count,
\* whether one of the transactions read, and one of those without a sender
\* row, has a signature that does not recover, and the blocks returned.
GetBlockTransactionRange ==
    /\ Healthy
    /\ DOMAIN BlockBodyIndices /= {}
    /\ \E lo \in DOMAIN BlockBodyIndices, hi \in DOMAIN BlockBodyIndices :
         LET tx_numbers == {t \in 0..last_tx_num(BlockBodyIndices[hi]) :
                               t >= first_tx_num(BlockBodyIndices[lo])}
             read == tx_numbers \cap DOMAIN Transactions
             Apply(r) ==
                 /\ SetDB(r.db)
                 /\ lastOp' = [op |-> "block_transaction_range", lo |-> lo, hi |-> hi,
                               result |-> r.result, changed |-> 0, full |-> FALSE,
                               pruned |-> lastOp.pruned,
                               info |-> Some([transactions |-> Cardinality(read),
                                              senders |-> Cardinality(
                                                  tx_numbers \cap DOMAIN TransactionSenders),
                                              counted |-> Cardinality(tx_numbers),
                                              bad_signature |->
                                                  \E t \in read :
                                                      Transactions[t][2] = BadSignature,
                                              bad_without_sender |->
                                                  \E t \in read \ DOMAIN TransactionSenders :
                                                      Transactions[t][2] = BadSignature,
                                              block_tx |-> r.block_tx])]
         IN  /\ lo <= hi
             /\ Apply(get_take_block_transaction_range(DB, lo, hi, FALSE))
    /\ snapshot' = EmptyDB

NextSenders == AppendSenders \/ PruneRows \/ GetBlockTransactionRange

SpecSenders == Init /\ [][NextSenders]_vars

\* ----------------------------------------------- specification: receipts
\* Blocks without a transaction or with one, whose receipts are written with
\* the blocks, and a pruner that deletes Receipts rows by tx number.
AppendReceipts ==
    AppendBlocksWithState(
        MaxBlock, {[salt |-> 0, tx_count |-> c, extras |-> 0] : c \in {0, 1}},
        ChainChanges, {NoPruning})

\* prune_table_with_range of Receipts over a range of tx numbers, without a
\* limit or with a limit of one entry, and with a skip filter that keeps at
\* most one row of the range.  lastOp.info records the filter, what the call
\* returned, how many rows it removed from the table and how many entries the
\* limiter counted.
PruneReceipts ==
    /\ Healthy
    /\ \E lo \in 0..MaxBlock, hi \in 0..MaxBlock, limit \in {None, Some(1)} :
         /\ lo <= hi
         /\ RangeKeys(Receipts, lo, hi) /= {}
         /\ \E skipped \in {{}} \cup {{k} : k \in RangeKeys(Receipts, lo, hi)} :
              LET limiter == [deleted_entries_limit |-> limit, deleted_entries_count |-> 0]
                  Apply(r) ==
                      /\ SetDB([DB EXCEPT !.Receipts = r.table])
                      /\ lastOp' = [op |-> "prune", lo |-> lo, hi |-> hi, result |-> "Ok",
                                    changed |-> 0, full |-> FALSE, pruned |-> lastOp.pruned,
                                    info |-> Some([skipped |-> skipped,
                                                   deleted_entries |-> r.deleted_entries,
                                                   done |-> r.done,
                                                   rows_deleted |->
                                                       Cardinality(DOMAIN Receipts)
                                                         - Cardinality(DOMAIN r.table),
                                                   counted |->
                                                       r.limiter.deleted_entries_count])]
              IN  Apply(prune_table_with_range(Receipts, lo, hi, limiter, skipped))
    /\ snapshot' = EmptyDB

\* prune_table_with_iterator of Receipts over a sorted list of tx numbers,
\* without a limit or with a limit of one entry.  lastOp.info records the
\* keys, what the call returned, how many keys it looked up and how many rows
\* it removed from the table.
PruneReceiptsByKeys ==
    /\ Healthy
    /\ DOMAIN Receipts /= {}
    /\ \E keys \in SUBSET (0..MaxBlock), limit \in {None, Some(1)} :
         LET limiter == [deleted_entries_limit |-> limit, deleted_entries_count |-> 0]
             Apply(r) ==
                 /\ SetDB([DB EXCEPT !.Receipts = r.table])
                 /\ lastOp' = [op |-> "prune_iterator", lo |-> 0, hi |-> 0, result |-> "Ok",
                               changed |-> 0, full |-> FALSE, pruned |-> lastOp.pruned,
                               info |-> Some([keys |-> keys,
                                              deleted_entries |-> r.deleted_entries,
                                              done |-> r.done,
                                              looked_up |-> r.looked_up,
                                              rows_deleted |->
                                                  Cardinality(DOMAIN Receipts)
                                                    - Cardinality(DOMAIN r.table)])]
         IN  Apply(prune_table_with_iterator(Receipts, SortedSeq(keys), limiter))
    /\ snapshot' = EmptyDB

NextReceipts ==
    \/ AppendReceipts
    \/ PruneReceipts
    \/ PruneReceiptsByKeys
    \/ TakeBlockAndExecutionRange

SpecReceipts == Init /\ [][NextReceipts]_vars

\* --------------------------------------- specification: pure functions
\* A RevmKey is <<"Account", address, data key>> or <<"Slot", address, slot>>.
\* The dependency of a read set on the keys of a write set alone.
DependsOnSameKeyOnly(self, other) ==
    \E read_key \in self.read_set : read_key \in other.write_set

\* TransactionRWSet::depends_on: the loop over the read set returns true at
\* the first key that the other set writes, or whose account the other set
\* destroys the storage of.
depends_on(self, other) ==
    \E read_key \in self.read_set :
        \/ /\ read_key[1] = "Slot"
           /\ <<"Account", read_key[2], "Storage">> \in other.write_set
        \/ read_key \in other.write_set

\* depends_on for two read/write sets over the balance and the storage of
\* one account and a slot of that account and of another one.
DependsOn ==
    /\ lastOp.op = "init"
    /\ \E a \in [read_set : SUBSET {<<"Account", 1, "Balance">>, <<"Account", 1, "Storage">>,
                                    <<"Slot", 1, 0>>, <<"Slot", 2, 0>>},
                 write_set : SUBSET {<<"Account", 1, "Balance">>, <<"Account", 1, "Storage">>,
                                     <<"Slot", 1, 0>>, <<"Slot", 2, 0>>}],
          b \in [read_set : SUBSET {<<"Account", 1, "Balance">>, <<"Account", 1, "Storage">>,
                                    <<"Slot", 1, 0>>, <<"Slot", 2, 0>>},
                 write_set : SUBSET {<<"Account", 1, "Balance">>, <<"Account", 1, "Storage">>,
                                     <<"Slot", 1, 0>>, <<"Slot", 2, 0>>}] :
         lastOp' = [op |-> "depends_on", lo |-> 0, hi |-> 0, result |-> "Ok", changed |-> 0,
                    full |-> FALSE, pruned |-> lastOp.pruned,
                    info |-> Some([a |-> a, b |-> b, depends |-> depends_on(a, b),
                                   reverse |-> depends_on(b, a),
                                   self |-> depends_on(a, a)])]
    /\ UNCHANGED <<tables, StaticFileHeaders, staticWriter, committed, hashing, snapshot>>

\* A ConsensusLog is [address, topics, data]; an alloy Log is
\* [address, data], its data being [topics, data].  A topic and a byte of
\* the data are numbers.
MaxTopics == 5
MaxDataLen == 2

\* A construction of the Log that checks the number of topics, and leaves
\* the log without topics when there are more than four.
LogFromConsensusLogChecked(log) ==
    [address |-> log.address,
     data |-> [topics |-> IF Len(log.topics) > 4 THEN <<>> ELSE log.topics,
               data |-> log.data]]

\* From<ConsensusLog> for Log: Log::new_unchecked(address, topics, data).
LogFromConsensusLog(log) ==
    [address |-> log.address, data |-> [topics |-> log.topics, data |-> log.data]]

\* From<Log> for ConsensusLog: the topics are taken out of the log data.
ConsensusLogFromLog(log) ==
    [address |-> log.address, topics |-> log.data.topics, data |-> log.data.data]

\* Compact::to_compact of an address, a list of topics and the data, the
\* fields of both log types in their order: the address, the number of
\* topics, the topics, and the data up to the end of the buffer.
to_compact(address, topics, data) == <<address, Len(topics)>> \o topics \o data

\* Log::from_compact(buf, len).
from_compact(buf, len) ==
    [address |-> buf[1],
     data |-> [topics |-> SubSeq(buf, 3, 2 + buf[2]),
               data |-> SubSeq(buf, 3 + buf[2], len)]]

\* The round trip of the test: a ConsensusLog of up to MaxTopics topics and
\* MaxDataLen bytes is converted into a Log and back, compacted, decoded as a
\* Log, and compacted as the Log built from its fields.
ConvertLog ==
    /\ lastOp.op = "init"
    /\ \E address \in Addresses,
          topics \in UNION {[1..n -> {1, 2}] : n \in 0..MaxTopics},
          data \in UNION {[1..n -> {0, 1}] : n \in 0..MaxDataLen} :
         LET log == [address |-> address, topics |-> topics, data |-> data]
             compacted_log == to_compact(log.address, log.topics, log.data)
             len == Len(compacted_log)
             alloy_log == LogFromConsensusLog(log)
             compacted_alloy_log ==
                 to_compact(alloy_log.address, alloy_log.data.topics, alloy_log.data.data)
         IN  lastOp' = [op |-> "convert_log", lo |-> 0, hi |-> 0, result |-> "Ok",
                        changed |-> 0, full |-> FALSE, pruned |-> lastOp.pruned,
                        info |-> Some([log |-> log,
                                       back |-> ConsensusLogFromLog(alloy_log),
                                       compacted_log |-> compacted_log,
                                       decoded |-> ConsensusLogFromLog(
                                                       from_compact(compacted_log, len)),
                                       compacted_alloy_log |-> compacted_alloy_log])]
    /\ UNCHANGED <<tables, StaticFileHeaders, staticWriter, committed, hashing, snapshot>>

NextPure == DependsOn \/ ConvertLog

SpecPure == Init /\ [][NextPure]_vars

\* ------------------------------------------------------------ properties
\* The last step undid the append before it: the same range, taken with
\* success.  `snapshot` then holds the tables as they were before the append.
RoundTrip == lastOp.op = "roundtrip" /\ lastOp.result = "Ok"

\* C1: round trip of world state.  When append_blocks_with_state has applied
\* blocks p+1..=q on top of tip p and get_or_take_block_and_execution_range
\* with TAKE has then taken p+1..=q with success, PlainAccountState,
\* PlainStorageState, HashedAccounts and HashedStorages hold exactly the rows
\* they held before the append.
C1_WorldStateRoundTrip ==
    RoundTrip =>
        /\ PlainAccountState = snapshot.PlainAccountState
        /\ PlainStorageState = snapshot.PlainStorageState
        /\ HashedAccounts = snapshot.HashedAccounts
        /\ HashedStorages = snapshot.HashedStorages

\* A round trip over two blocks that both changed the state, on top of a
\* state that holds a storage slot.
C1_Witness ==
    /\ RoundTrip
    /\ lastOp.lo < lastOp.hi
    /\ lastOp.changed = 2
    /\ PlainStorageState /= {}
    /\ HashedStorages /= {}


\* C2: round trip of chain data.  After append_blocks_with_state has inserted
\* blocks p+1..=q on top of tip p and the take of p+1..=q has succeeded,
\* CanonicalHeaders, Headers, HeaderNumbers, HeaderTerminalDifficulties,
\* BlockBodyIndices, Transactions, TransactionSenders, TransactionHashNumbers,
\* BlockOmmers, BlockWithdrawals and Receipts equal their pre-append contents;
\* last_block_number returns p, and Transactions holds exactly the tx numbers
\* below the first tx number of block p+1 (the number after block p's last).
C2_ChainDataRoundTrip ==
    RoundTrip =>
        /\ CanonicalHeaders = snapshot.CanonicalHeaders
        /\ Headers = snapshot.Headers
        /\ HeaderNumbers = snapshot.HeaderNumbers
        /\ HeaderTerminalDifficulties = snapshot.HeaderTerminalDifficulties
        /\ BlockBodyIndices = snapshot.BlockBodyIndices
        /\ Transactions = snapshot.Transactions
        /\ TransactionSenders = snapshot.TransactionSenders
        /\ TransactionHashNumbers = snapshot.TransactionHashNumbers
        /\ BlockOmmers = snapshot.BlockOmmers
        /\ BlockWithdrawals = snapshot.BlockWithdrawals
        /\ Receipts = snapshot.Receipts
        /\ last_block_number(DB) = lastOp.lo - 1
        /\ lastOp.lo - 1 \in DOMAIN BlockBodyIndices
        /\ DOMAIN Transactions =
               {t \in 0..(MaxBlock + 1) * MaxTxCount :
                    t < BlockBodyIndices[lastOp.lo - 1].first_tx_num
                          + BlockBodyIndices[lastOp.lo - 1].tx_count}

\* A round trip over two blocks on top of a block that has transactions with
\* their hash index, senders and receipts, ommers and withdrawals.
C2_Witness ==
    /\ RoundTrip
    /\ lastOp.lo < lastOp.hi
    /\ DOMAIN Transactions /= {}
    /\ DOMAIN TransactionHashNumbers /= {}
    /\ DOMAIN TransactionSenders /= {}
    /\ DOMAIN Receipts /= {}
    /\ DOMAIN BlockOmmers /= {}
    /\ DOMAIN BlockWithdrawals /= {}


\* The shards of a partial key, in ascending highest_block_number order, and
\* the indices they hold, concatenated in that order.
ShardKeysOf(table, p) == SortedKeys({k \in DOMAIN table : k[1] = p})
ShardListsOf(table, p) ==
    [i \in 1..Len(ShardKeysOf(table, p)) |-> table[ShardKeysOf(table, p)[i]]]
IndicesOf(table, p) == Concat(ShardListsOf(table, p))

AccountKeys == {<<a>> : a \in Addresses}
HistoryTakeDone == lastOp.op \in {"take", "roundtrip"} /\ lastOp.result = "Ok"

\* C3: round trip of history indices.  After the append has run
\* update_history_indices over p+1..=q and the take has run
\* unwind_account_history_indices and unwind_storage_history_indices over the
\* same range, AccountsHistory and StoragesHistory hold the same shard keys
\* and the same shard lists as before the append.
C3_HistoryRoundTrip ==
    RoundTrip =>
        /\ AccountsHistory = snapshot.AccountsHistory
        /\ StoragesHistory = snapshot.StoragesHistory

\* A round trip over two blocks that changed keys, on top of a state where
\* the open shard of account 1 is exactly full, so that the append closed it.
C3_Witness ==
    /\ RoundTrip
    /\ lastOp.lo < lastOp.hi
    /\ lastOp.changed >= 3
    /\ ShardedKeyLast(<<1>>) \in DOMAIN AccountsHistory
    /\ Len(AccountsHistory[ShardedKeyLast(<<1>>)]) = NUM_OF_INDICES_IN_SHARD
    /\ DOMAIN StoragesHistory /= {}

\* C5: shard content.  For every key, the concatenation of its shard lists in
\* ascending highest_block_number order is the ascending list of the blocks
\* at which the key changed and that have not been unwound (the blocks that
\* still have a changeset row for the key): no duplicates and no losses.
C5_ShardContent ==
    /\ \A p \in AccountKeys :
         IndicesOf(AccountsHistory, p)
           = SortedSeq({k[1] : k \in {j \in DOMAIN AccountChangeSets : <<j[2]>> = p}})
    /\ \A p \in StorageKeys :
         IndicesOf(StoragesHistory, p)
           = SortedSeq({k[1] : k \in {j \in DOMAIN StorageChangeSets : <<j[2], j[3]>> = p}})

\* After an unwind, account 1 still has more indices than one shard holds,
\* and a slot has indices too.
C5_Witness ==
    /\ HistoryTakeDone
    /\ Len(IndicesOf(AccountsHistory, <<1>>)) > NUM_OF_INDICES_IN_SHARD
    /\ IndicesOf(StoragesHistory, <<1, 1>>) /= <<>>

\* C6: shard shape.  For every key, no shard holds more than
\* NUM_OF_INDICES_IN_SHARD entries, every shard but the last holds exactly
\* that many and is keyed by its own largest entry, and the last shard is
\* keyed by u64::MAX.
ShardShape(table, p) ==
    LET keys == ShardKeysOf(table, p)
    IN  \A i \in 1..Len(keys) :
          /\ table[keys[i]] /= <<>>
          /\ Len(table[keys[i]]) <= NUM_OF_INDICES_IN_SHARD
          /\ i < Len(keys) =>
               /\ Len(table[keys[i]]) = NUM_OF_INDICES_IN_SHARD
               /\ keys[i][2] = table[keys[i]][Len(table[keys[i]])]
          /\ i = Len(keys) => keys[i][2] = U64_MAX

C6_ShardShape ==
    /\ \A p \in AccountKeys : ShardShape(AccountsHistory, p)
    /\ \A p \in StorageKeys : ShardShape(StoragesHistory, p)

\* 2 * NUM_OF_INDICES_IN_SHARD + 1 changes of account 1: two closed shards
\* and an open shard with one entry.
C6_Witness ==
    /\ Len(ShardKeysOf(AccountsHistory, <<1>>)) = 3
    /\ Len(AccountsHistory[ShardedKeyLast(<<1>>)]) = 1
    /\ Len(IndicesOf(AccountsHistory, <<1>>)) = 2 * NUM_OF_INDICES_IN_SHARD + 1

\* C7: history unwind cut.  Unwinding key p at block_number
\* (unwind_history_shards, then the caller's reinsertion) leaves for p
\* exactly the indices stored before that are strictly below block_number,
\* and leaves the shards of every other key as they were.
UnwindCut(table, p, block_number) ==
    LET r == UnwindHistoryKey(table, p, block_number)
    IN  /\ r.result = "Ok"
        /\ IndicesOf(r.table, p)
             = SelectSeq(IndicesOf(table, p), LAMBDA i : i < block_number)
        /\ {k \in DOMAIN r.table : k[1] /= p} = {k \in DOMAIN table : k[1] /= p}
        /\ \A k \in DOMAIN table : k[1] /= p => r.table[k] = table[k]

C7_HistoryUnwindCut ==
    \A block_number \in 0..MaxHistoryBlock + 1 :
       /\ \A p \in AccountKeys : UnwindCut(AccountsHistory, p, block_number)
       /\ \A p \in StorageKeys : UnwindCut(StoragesHistory, p, block_number)

\* An unwind has run, account 1 has a closed and an open shard, and another
\* account has shards of its own.
C7_Witness ==
    /\ HistoryTakeDone
    /\ lastOp.op = "take"
    /\ Len(ShardKeysOf(AccountsHistory, <<1>>)) >= 2
    /\ ShardKeysOf(AccountsHistory, <<2>>) /= <<>>


\* C4 as the specification states it: after the round trip the
\* StageCheckpoints table is identical to its pre-append contents (the same
\* stage ids, block numbers and stage-specific progress).
C4_StageCheckpointsRoundTrip ==
    RoundTrip => StageCheckpoints = snapshot.StageCheckpoints

\* C4, amended: after append_blocks_with_state of p+1..=q and the successful
\* take of p+1..=q, StageCheckpoints holds for every stage id of StageId::ALL
\* the block number p and no stage-specific progress, whatever the stage held
\* before the append; a checkpoint that was at block p without progress is
\* the same as before.
C4_StageCheckpointsAfterUnwind ==
    RoundTrip =>
        /\ DOMAIN StageCheckpoints = StageIds
        /\ \A id \in StageIds :
             /\ StageCheckpoints[id] =
                    [block_number |-> lastOp.lo - 1, progress |-> DefaultCheckpoint.progress]
             /\ (id \in DOMAIN snapshot.StageCheckpoints
                   /\ snapshot.StageCheckpoints[id].block_number = lastOp.lo - 1
                   /\ snapshot.StageCheckpoints[id].progress = DefaultCheckpoint.progress)
                  => StageCheckpoints[id] = snapshot.StageCheckpoints[id]

\* A round trip on top of a state where the Execution stage had saved
\* progress of its own.
C4_Witness ==
    /\ RoundTrip
    /\ "Execution" \in DOMAIN snapshot.StageCheckpoints
    /\ snapshot.StageCheckpoints["Execution"].progress = 1
    /\ StageCheckpoints["Execution"].progress = 0

\* C8: transaction-number contiguity.  For every block n > 0 present in
\* BlockBodyIndices together with n - 1, the first tx number of n is the
\* first tx number of n - 1 plus its tx count; and the first tx number
\* insert_block assigns to the first block of an append is the largest
\* TransactionBlocks key plus one, or 0 when TransactionBlocks is empty.
TxNumbersContiguous ==
    \A n \in DOMAIN BlockBodyIndices :
       (n > 0 /\ n - 1 \in DOMAIN BlockBodyIndices) =>
           BlockBodyIndices[n].first_tx_num
             = BlockBodyIndices[n - 1].first_tx_num + BlockBodyIndices[n - 1].tx_count

FirstTxNumberAssigned ==
    lastOp'.op = "append" =>
        BlockBodyIndices'[lastOp'.lo].first_tx_num
          = IF DOMAIN TransactionBlocks = {} THEN 0
            ELSE Max(DOMAIN TransactionBlocks) + 1

C8_TxNumberContiguity == []TxNumbersContiguous /\ [][FirstTxNumberAssigned]_vars

\* After a tip unwind, a block without transactions sits on top of a block
\* with transactions.
C8_Witness ==
    /\ lastOp.op = "take"
    /\ \E n \in DOMAIN BlockBodyIndices :
         /\ n > 0
         /\ n - 1 \in DOMAIN BlockBodyIndices
         /\ BlockBodyIndices[n].tx_count = 0
         /\ BlockBodyIndices[n - 1].tx_count > 0

\* C9: header/hash bijection.  CanonicalHeaders and HeaderNumbers are
\* inverses: CanonicalHeaders[n] = h if and only if HeaderNumbers[h] = n.
C9_HeaderHashBijection ==
    /\ \A n \in DOMAIN CanonicalHeaders :
         /\ CanonicalHeaders[n] \in DOMAIN HeaderNumbers
         /\ HeaderNumbers[CanonicalHeaders[n]] = n
    /\ \A h \in DOMAIN HeaderNumbers :
         /\ HeaderNumbers[h] \in DOMAIN CanonicalHeaders
         /\ CanonicalHeaders[HeaderNumbers[h]] = h

\* C10: transaction-to-block anchors.  Every tx number t in Transactions has
\* exactly one block whose BlockBodyIndices range holds it, transaction_block
\* returns that block, and transaction_by_hash_with_meta of an indexed
\* transaction finds it there with the index t - first_tx_num, without
\* overflow.
EnclosingBlocks(t) ==
    {b \in DOMAIN BlockBodyIndices :
        /\ BlockBodyIndices[b].first_tx_num <= t
        /\ t < BlockBodyIndices[b].first_tx_num + BlockBodyIndices[b].tx_count}

C10_TransactionAnchors ==
    /\ \A t \in DOMAIN Transactions :
         /\ Cardinality(EnclosingBlocks(t)) = 1
         /\ \A b \in EnclosingBlocks(t) : transaction_block(DB, t) = Some(b)
    /\ \A h \in DOMAIN TransactionHashNumbers :
         LET meta == transaction_by_hash_with_meta(DB, h)
             t == TransactionHashNumbers[h]
         IN  /\ meta.result = "Some"
             /\ meta.block_number \in EnclosingBlocks(t)
             /\ meta.index = t - BlockBodyIndices[meta.block_number].first_tx_num
             /\ meta.index >= 0

\* After a tip unwind: a block without transactions on top of a block whose
\* second transaction is found by its hash.
C10_Witness ==
    /\ lastOp.op = "take"
    /\ \E b \in DOMAIN BlockBodyIndices : BlockBodyIndices[b].tx_count = 0
    /\ \E h \in DOMAIN TransactionHashNumbers :
         /\ transaction_by_hash_with_meta(DB, h).result = "Some"
         /\ transaction_by_hash_with_meta(DB, h).index = 1

\* C11: sender rows.  As long as no insert_block ran with sender recovery
\* pruned in full, Transactions and TransactionSenders hold rows for the same
\* tx numbers, after every append and every tip unwind; and an append that
\* runs with sender recovery pruned in full leaves TransactionSenders as it
\* was while it writes the transactions.
SenderRowsMatch == ~lastOp.pruned => DOMAIN Transactions = DOMAIN TransactionSenders

PrunedInsertWritesNoSender ==
    (lastOp'.op = "append" /\ lastOp'.full) => TransactionSenders' = TransactionSenders

C11_SenderRows == []SenderRowsMatch /\ [][PrunedInsertWritesNoSender]_vars

\* A tip unwind in a history without pruning that leaves transactions with
\* their senders behind.
C11_Witness ==
    /\ lastOp.op = "take"
    /\ ~lastOp.pruned
    /\ Cardinality(DOMAIN TransactionSenders) >= 2

\* The hashed mirror of an account and of a slot: the same account (or none)
\* under the hashed address, and the same rows under the hashed address and
\* hashed slot.
AccountMirrored(hashed, plain, a) == Get(hashed, keccak256(a)) = Get(plain, a)
SlotMirrored(hashed, plain, a, s) ==
    {r \in hashed : r[1] = keccak256(a) /\ r[2] = keccak256(s)}
        = {<<keccak256(a), keccak256(s), r[3]>> : r \in {q \in plain : q[1] = a /\ q[2] = s}}

TakeDone == lastOp.op \in {"take", "roundtrip"} /\ lastOp.result = "Ok"
InsertHashesDone == lastOp.op = "insert_hashes" /\ lastOp.result = "Ok"

\* After insert_hashes: every key with a changeset row in the range is
\* mirrored.
MirroredAfterInsertHashes ==
    InsertHashesDone =>
        /\ \A k \in ChangeSetKeys(AccountChangeSets, lastOp.lo, lastOp.hi) :
             AccountMirrored(HashedAccounts, PlainAccountState, k[2])
        /\ \A k \in ChangeSetKeys(StorageChangeSets, lastOp.lo, lastOp.hi) :
             SlotMirrored(HashedStorages, PlainStorageState, k[2], k[3])

\* A step that takes a range: every key with a changeset row in the range is
\* mirrored afterwards, and holds in both tables the value recorded by the
\* earliest of its changeset rows in the range.
MirroredAfterTake ==
    (TakeDone') =>
        /\ \A k \in ChangeSetKeys(AccountChangeSets, lastOp'.lo, lastOp'.hi) :
             LET earliest == Min({j[1] : j \in {i \in ChangeSetKeys(AccountChangeSets,
                                                       lastOp'.lo, lastOp'.hi) : i[2] = k[2]}})
             IN  /\ AccountMirrored(HashedAccounts', PlainAccountState', k[2])
                 /\ Get(PlainAccountState', k[2]) = AccountChangeSets[<<earliest, k[2]>>]
        /\ \A k \in ChangeSetKeys(StorageChangeSets, lastOp'.lo, lastOp'.hi) :
             LET earliest == Min({j[1] : j \in {i \in ChangeSetKeys(StorageChangeSets,
                                                       lastOp'.lo, lastOp'.hi) :
                                                   i[2] = k[2] /\ i[3] = k[3]}})
             IN  /\ SlotMirrored(HashedStorages', PlainStorageState', k[2], k[3])
                 /\ PlainStorageValue(PlainStorageState', k[2], k[3])
                        = StorageChangeSets[<<earliest, k[2], k[3]>>]

\* C12: hashed mirror consistency.  After insert_hashes over a range has
\* succeeded, and after get_or_take_block_and_execution_range with TAKE over a
\* range has succeeded, HashedAccounts and HashedStorages agree with
\* PlainAccountState and PlainStorageState on every address and slot the
\* changesets of the range touched; after the take both hold the value that
\* preceded the earliest block of the range that changed the key.
C12_HashedMirror == []MirroredAfterInsertHashes /\ [][MirroredAfterTake]_vars

\* A take of two blocks that both changed the same key, whose earlier value
\* is back in both tables.
C12_Witness ==
    /\ TakeDone
    /\ lastOp.lo < lastOp.hi
    /\ lastOp.info = Some(1)
    /\ PlainAccountState /= <<>>
    /\ HashedAccounts /= <<>>


NoZeroOrDuplicateRow(rows) ==
    \A r \in rows :
        /\ r[3] /= 0
        /\ \A q \in rows : (q[1] = r[1] /\ q[2] = r[2]) => q = r

\* C13: no zero-valued storage rows.  In every state reached through
\* insert_storage_for_hashing, unwind_storage_hashing and
\* unwind_or_peek_state with UNWIND, neither PlainStorageState nor
\* HashedStorages has a row whose value is zero, and neither has two rows for
\* the same (address, slot).
C13_NoZeroStorageRows ==
    NoZeroOrDuplicateRow(PlainStorageState) /\ NoZeroOrDuplicateRow(HashedStorages)

\* insert_hashes over a range that set a slot with a value to zero: the slot
\* has no row in either table.
C13_Witness ==
    /\ InsertHashesDone
    /\ \E k \in ChangeSetKeys(StorageChangeSets, lastOp.lo, lastOp.hi) :
          /\ StorageChangeSets[k] /= 0
          /\ PlainStorageValue(PlainStorageState, k[2], k[3]) = 0
          /\ ~\E r \in PlainStorageState \cup HashedStorages : TRUE


\* C14: incremental root equals full root.  Whenever insert_hashes(r, h, root)
\* returns Ok, the state root recomputed from the whole of HashedAccounts and
\* HashedStorages is root.
C14_IncrementalRootIsFullRoot ==
    InsertHashesDone =>
        StateRootOf(HashedAccounts, HashedStorages) = Unwrap(lastOp.info).expected_state_root


\* insert_hashes of two blocks that changed an account and a slot, against
\* the root of the last header.
C14_Witness ==
    /\ InsertHashesDone
    /\ lastOp.lo < lastOp.hi
    /\ Unwrap(lastOp.info).expected_state_root = Headers[lastOp.hi].state_root
    /\ ChangeSetKeys(AccountChangeSets, lastOp.lo, lastOp.hi) /= {}
    /\ ChangeSetKeys(StorageChangeSets, lastOp.lo, lastOp.hi) /= {}
    /\ HashedStorages /= {}
    /\ TrieState.storages = HashedStorages


InsertHashesFailed == lastOp.op = "insert_hashes" /\ lastOp.result = "StateRootMismatch"

\* A failed insert_hashes step: the error carries the recomputed root, the
\* expected root, the end of the range and the hash handed in, the two roots
\* differ, and the trie tables are as before the call.
MismatchReported ==
    (InsertHashesFailed') =>
        /\ TrieState' = TrieState
        /\ Unwrap(lastOp'.info).error =
              Some([got |-> StateRootOf(HashedAccounts', HashedStorages'),
                    expected |-> Unwrap(lastOp'.info).expected_state_root,
                    block_number |-> lastOp'.hi,
                    block_hash |-> Unwrap(lastOp'.info).end_block_hash])
        /\ StateRootOf(HashedAccounts', HashedStorages')
              /= Unwrap(lastOp'.info).expected_state_root

\* C15: insert_hashes root mismatch.  If the root recomputed by
\* insert_hashes(range, end_hash, expected_root) differs from expected_root,
\* it returns StateRootMismatch carrying got, expected, block_number =
\* range.end and block_hash = end_hash, and no trie update of the call is
\* written to the trie tables.
C15_InsertHashesRootMismatch == [][MismatchReported]_vars

\* A failed insert_hashes of two blocks whose hashed rows were written while
\* the stored trie still has the older content.
C15_Witness ==
    /\ InsertHashesFailed
    /\ lastOp.lo < lastOp.hi
    /\ HashedAccounts /= <<>>
    /\ TrieState.accounts /= HashedAccounts
    /\ Unwrap(Unwrap(lastOp.info).error).block_hash = CanonicalHeaders[lastOp.hi]


TakeStep == lastOp'.op \in {"take", "roundtrip"}

\* A take step succeeds exactly when the root of the unwound hashed tables is
\* the state root of the header below the range.  When it succeeds the trie
\* holds that root and the blocks and changesets of the range are gone; when
\* it fails with UnwindStateRootMismatch the trie, the block tables, the
\* changesets, the receipts and the plain state are as before the call.
UnwindRootChecked ==
    TakeStep =>
        LET parent_root == Headers[lastOp'.lo - 1].state_root
            got == StateRootOf(HashedAccounts', HashedStorages')
        IN  /\ lastOp'.result \in {"Ok", "UnwindStateRootMismatch"}
            /\ (lastOp'.result = "Ok") <=> (got = parent_root)
            /\ (lastOp'.result = "Ok") =>
                 /\ StateRootOf(TrieState'.accounts, TrieState'.storages) = parent_root
                 /\ DOMAIN CanonicalHeaders' = 0..(lastOp'.lo - 1)
                 /\ ChangeSetKeys(AccountChangeSets', lastOp'.lo, lastOp'.hi) = {}
                 /\ ChangeSetKeys(StorageChangeSets', lastOp'.lo, lastOp'.hi) = {}
            /\ (lastOp'.result = "UnwindStateRootMismatch") =>
                 /\ TrieState' = TrieState
                 /\ UNCHANGED <<CanonicalHeaders, Headers, HeaderNumbers,
                                HeaderTerminalDifficulties, BlockOmmers, BlockWithdrawals,
                                BlockBodyIndices, Transactions, TransactionSenders,
                                TransactionHashNumbers, TransactionBlocks>>
                 /\ UNCHANGED <<AccountChangeSets, StorageChangeSets, Receipts,
                                PlainAccountState, PlainStorageState>>

\* C16: unwind root check.  get_or_take_block_and_execution_range with TAKE
\* flushes the trie updates and goes on to delete blocks and state only if
\* the root recomputed after unwinding the hashed tables equals the
\* state_root of the header of block range.start - 1; otherwise it returns
\* UnwindStateRootMismatch, and no trie update, block row, changeset row,
\* receipt or plain-state row has been written or deleted.
C16_UnwindRootCheck == [][UnwindRootChecked]_vars

\* A failed take of two blocks that changed a slot of an account whose
\* creation below the range was never hashed: the blocks, their receipts,
\* the changeset rows and the plain state are all still there.
C16_Witness ==
    /\ lastOp.op = "take"
    /\ lastOp.result = "UnwindStateRootMismatch"
    /\ lastOp.lo < lastOp.hi
    /\ lastOp.hi \in DOMAIN CanonicalHeaders
    /\ ChangeSetKeys(StorageChangeSets, lastOp.lo, lastOp.hi) /= {}
    /\ Cardinality(DOMAIN Receipts) > lastOp.hi
    /\ PlainStorageState /= {}
    /\ HashedAccounts = <<>>


RewoundToParent ==
    (TakeDone /\ lastOp.lo <= lastOp.hi) =>
        \A id \in StageIds :
            /\ id \in DOMAIN StageCheckpoints
            /\ StageCheckpoints[id].block_number = IF lastOp.lo = 0 THEN 0 ELSE lastOp.lo - 1

EmptyTakeKeepsCheckpoints ==
    (TakeDone' /\ lastOp'.lo > lastOp'.hi) => StageCheckpoints' = StageCheckpoints

ObservedRanges ==
    {r \in (0..(MaxBlock + 1)) \X (0..(MaxBlock + 1)) : r[1] <= r[2] + 1}

\* C18: observe mode is read-only.  get_or_take::<T, false>,
\* unwind_or_peek_state::<false>, get_take_block_range::<false> and
\* get_or_take_block_and_execution_range::<false> leave every table
\* (changesets, plain and hashed state, block tables, receipts, history
\* indices, trie, stage checkpoints) unchanged, for every range and every
\* database state.
C18_ObserveModeReadOnly ==
    \A r \in ObservedRanges :
        /\ get_or_take(BlockBodyIndices, r[1], r[2], FALSE).table = BlockBodyIndices
        /\ get_or_take(Receipts, r[1], r[2], FALSE).table = Receipts
        /\ get_or_take_changeset(AccountChangeSets, r[1], r[2], FALSE).table
              = AccountChangeSets
        /\ get_or_take_changeset(StorageChangeSets, r[1], r[2], FALSE).table
              = StorageChangeSets
        /\ unwind_or_peek_state(DB, r[1], r[2], FALSE).db = DB
        /\ get_take_block_range(DB, r[1], r[2], FALSE).db = DB
        /\ get_or_take_block_and_execution_range(DB, r[1], r[2], FALSE).db = DB

\* A database where observing blocks 1..=2 returns two blocks with their
\* transactions, a bundle state with a changed key and its reverts.
C18_Witness ==
    LET observed == get_or_take_block_and_execution_range(DB, 1, 2, FALSE)
    IN  /\ observed.result = "Ok"
        /\ Len(observed.chain.blocks) = 2
        /\ observed.chain.blocks[1].body /= <<>>
        /\ DOMAIN observed.chain.state /= {}
        /\ DOMAIN observed.chain.reverts /= {}
        /\ ChangeSetKeys(AccountChangeSets, 1, 2) /= {}
        /\ ChangeSetKeys(StorageChangeSets, 1, 2) /= {}


\* The number of the block the Headers static file expects next.
NextStaticFileBlock(static_headers) ==
    IF DOMAIN static_headers = {} THEN 0 ELSE Max(DOMAIN static_headers) + 1

SyncGapDone == lastOp.op = "sync_gap"

\* C19: crash healing in sync_gap.  When the Headers static file is ahead of
\* highest_uninterrupted_block, sync_gap removes exactly the surplus headers:
\* it returns Ok, the highest block of the file is
\* highest_uninterrupted_block, local_head is the sealed header of that
\* block, and the target is block highest_uninterrupted_block + 1 in
\* Continuous mode and the supplied tip in Tip mode.
C19_SyncGapHealsCrash ==
    (SyncGapDone /\ NextStaticFileBlock(Unwrap(lastOp.info).before) > lastOp.lo + 1) =>
        LET call == Unwrap(lastOp.info)
        IN  /\ lastOp.result = "Ok"
            /\ StaticFileHeaders = [b \in 0..lastOp.lo |-> call.before[b]]
            /\ NextStaticFileBlock(StaticFileHeaders) = lastOp.lo + 1
            /\ Unwrap(call.gap).local_head = call.before[lastOp.lo]
            /\ Unwrap(call.gap).local_head.hash = hash_slow(call.before[lastOp.lo].header)
            /\ Unwrap(call.gap).target =
                  IF call.mode.kind = "Continuous"
                    THEN [kind |-> "TipNum", value |-> lastOp.lo + 1]
                    ELSE [kind |-> "Tip", value |-> Unwrap(call.mode.tip)]

\* sync_gap in Continuous mode on a file two headers ahead.
C19_Witness ==
    /\ SyncGapDone
    /\ lastOp.result = "Ok"
    /\ Unwrap(lastOp.info).mode.kind = "Continuous"
    /\ NextStaticFileBlock(Unwrap(lastOp.info).before) = lastOp.lo + 3
    /\ NextStaticFileBlock(StaticFileHeaders) = lastOp.lo + 1

NextOf(table) == IF DOMAIN table = {} THEN 0 ELSE Max(DOMAIN table) + 1

\* C21: static-file / KV height gap.  In every state, the highest block of
\* the Headers static file is the highest block the database has committed,
\* or the one after it.
C21_StaticKvHeightGap ==
    \/ NextOf(StaticFileHeaders) = NextOf(committed.CanonicalHeaders)
    \/ NextOf(StaticFileHeaders) = NextOf(committed.CanonicalHeaders) + 1

\* C22: commit publishes both backends.  A commit leaves no row of the
\* Headers writer unflushed and publishes the tables of the transaction; the
\* operation before it published nothing; a drop without a commit discards
\* the tables of the transaction and the rows of the writer.
C22_CommitPublishesBoth ==
    [][/\ lastOp'.op = "commit" => (committed' = DB /\ staticWriter' = EmptyTable)
       /\ lastOp'.op = "insert_historical_block" =>
             (committed' = committed /\ StaticFileHeaders' = StaticFileHeaders)
       /\ lastOp'.op = "drop" =>
             /\ DB' = committed
             /\ staticWriter' = EmptyTable
             /\ StaticFileHeaders' = StaticFileHeaders]_vars

\* C23: no partial commit after a semantic error.  A commit that follows an
\* insert_hashes that returned StateRootMismatch publishes the tables as
\* they were before that call: none of the rows the call wrote.
C23_NoPartialCommit ==
    [][(/\ lastOp.op = "insert_hashes"
        /\ lastOp.result = "StateRootMismatch"
        /\ lastOp'.op = "commit") => committed' = snapshot]_vars

\* ------------------------------------------------------- state providers
\* The arguments state_provider_by_block_number is checked with: a Headers
\* static file of 0..MaxBlock+2 headers, every combination of a missing
\* prune checkpoint, one without a block number and one at block 0 or 1 for
\* the two history segments, and a block number.
StateProviderArguments ==
    LET row == [header |-> [number |-> 0], hash |-> <<>>]
        files == {[b \in 0..(k - 1) |-> row] : k \in 0..(MaxBlock + 2)}
        checkpoint == {None, Some([block_number |-> None]),
                       Some([block_number |-> Some(0)]), Some([block_number |-> Some(1)])}
        checkpoints ==
            {[s \in {x \in {"AccountHistory", "StorageHistory"} : IsSome(c[x])} |->
                 Unwrap(c[s])] : c \in [{"AccountHistory", "StorageHistory"} -> checkpoint]}
    IN  [static_headers : files, prune_checkpoints : checkpoints,
         block_number : 0..(MaxBlock + 2)]

\* The provider the arguments `a` select is the latest-state one exactly when
\* the block is both the Finish checkpoint's and the last one; otherwise it
\* is historical, keyed at the block after, and its lowest available blocks
\* are the ones after the prune checkpoints that have a block number.
StateProviderSelected(a) ==
    LET provider == state_provider_by_block_number(
                        DB, a.static_headers, a.prune_checkpoints, a.block_number)
        best == IF "Finish" \in DOMAIN StageCheckpoints
                  THEN StageCheckpoints["Finish"].block_number ELSE 0
        last == IF DOMAIN CanonicalHeaders \cup DOMAIN a.static_headers = {} THEN 0
                ELSE CHOOSE n \in DOMAIN CanonicalHeaders \cup DOMAIN a.static_headers :
                        \A m \in DOMAIN CanonicalHeaders \cup DOMAIN a.static_headers : m <= n
        Pruned(segment) ==
            /\ segment \in DOMAIN a.prune_checkpoints
            /\ a.prune_checkpoints[segment].block_number /= None
    IN  /\ provider.kind \in {"LatestStateProvider", "HistoricalStateProvider"}
        /\ provider.kind = "LatestStateProvider"
             <=> (a.block_number = best /\ a.block_number = last)
        /\ provider.kind = "HistoricalStateProvider" =>
             /\ provider.block_number = a.block_number + 1
             /\ Pruned("AccountHistory") =>
                  provider.lowest_available_account_history_block_number
                    = Some(a.prune_checkpoints["AccountHistory"].block_number[1] + 1)
             /\ Pruned("StorageHistory") =>
                  provider.lowest_available_storage_history_block_number
                    = Some(a.prune_checkpoints["StorageHistory"].block_number[1] + 1)

\* C24: state provider selection.  state_provider_by_block_number(n) returns
\* the latest-state provider if and only if n equals both best_block_number
\* (the Finish checkpoint) and last_block_number; otherwise it returns a
\* historical provider keyed at n + 1 whose lowest available account-history
\* (storage-history) block is the block after the AccountHistory
\* (StorageHistory) prune checkpoint, whenever that checkpoint has a block
\* number.
C24_StateProviderSelection == \A a \in StateProviderArguments : StateProviderSelected(a)

\* A chain of two or more blocks with the Finish checkpoint at its tip: the
\* latest-state provider for the tip, a historical one for the tip once the
\* Headers static file is ahead of the database, and a clamped historical
\* one for block 0.
C24_Witness ==
    LET tip == last_block_number(DB)
        ahead == [b \in 0..(tip + 1) |-> [header |-> [number |-> 0], hash |-> <<>>]]
        pruned == [s \in {"AccountHistory"} |-> [block_number |-> Some(1)]]
    IN  /\ tip >= 1
        /\ "Finish" \in DOMAIN StageCheckpoints
        /\ StageCheckpoints["Finish"].block_number = tip
        /\ state_provider_by_block_number(DB, EmptyTable, EmptyTable, tip).kind
             = "LatestStateProvider"
        /\ state_provider_by_block_number(DB, ahead, EmptyTable, tip).kind
             = "HistoricalStateProvider"
        /\ state_provider_by_block_number(DB, EmptyTable, pruned, 0)
             = [kind |-> "HistoricalStateProvider", block_number |-> 1,
                lowest_available_account_history_block_number |-> Some(2),
                lowest_available_storage_history_block_number |-> None]

\* ------------------------------------------------- pipeline stage update
\* `after` holds a row for every stage id, at block_number, with the progress
\* the stage had in `before` (the default one where it had no row) or, when
\* the progress is dropped, the default one.
StagesUpdated(before, after, block_number, drop_stage_checkpoint) ==
    \A id \in StageIds :
        /\ id \in DOMAIN after
        /\ after[id].block_number = block_number
        /\ after[id].progress =
              IF drop_stage_checkpoint \/ id \notin DOMAIN before
                THEN DefaultCheckpoint.progress
                ELSE before[id].progress

\* C25: update_pipeline_stages(n, drop).  Afterwards every known stage id has
\* a StageCheckpoints row with block_number = n; with drop false each row
\* keeps the progress it had (the default one when the row was missing), with
\* drop true the progress is the default one.  append_blocks_with_state calls
\* it with the last block number and false: after an append every stage
\* checkpoint is at the last appended block, its progress kept.
C25_UpdatePipelineStages ==
    /\ \A block_number \in 0..(MaxBlock + 1), drop_stage_checkpoint \in BOOLEAN :
         StagesUpdated(StageCheckpoints,
                       update_pipeline_stages(DB, block_number,
                                              drop_stage_checkpoint).StageCheckpoints,
                       block_number, drop_stage_checkpoint)
    /\ (lastOp.op = "append" /\ lastOp.result = "Ok") =>
         StagesUpdated(snapshot.StageCheckpoints, StageCheckpoints, lastOp.hi, FALSE)

\* An append on top of a state where the Execution stage had saved progress
\* of its own at another block and other stages had no row.
C25_Witness ==
    /\ lastOp.op = "append"
    /\ lastOp.result = "Ok"
    /\ "Execution" \in DOMAIN snapshot.StageCheckpoints
    /\ snapshot.StageCheckpoints["Execution"].progress = 1
    /\ snapshot.StageCheckpoints["Execution"].block_number /= lastOp.hi
    /\ "Headers" \notin DOMAIN snapshot.StageCheckpoints
    /\ StageCheckpoints["Execution"] = [block_number |-> lastOp.hi, progress |-> 1]
    /\ update_pipeline_stages(DB, 0, TRUE).StageCheckpoints["Execution"]
         = [block_number |-> 0, progress |-> 0]

\* ------------------------------------------------------ parallel hashing
\* transaction_hashes_by_range has returned.
HashesReturned == lastOp.op = "transaction_hashes_by_range" /\ lastOp.result = "Ok"

\* C26: parallel hashing result.  For every tx range, every number of worker
\* threads and every interleaving of the workers, the list
\* transaction_hashes_by_range returns holds the pair (hash of
\* Transactions[t], t) exactly once for every t of the range that is present
\* in Transactions, and nothing else.
C26_ParallelHashingResult ==
    HashesReturned =>
        LET tx_list == lastOp.info[1].tx_list
            present == (lastOp.lo..(lastOp.hi - 1)) \cap DOMAIN Transactions
        IN  /\ \A t \in present :
                 Cardinality({i \in 1..Len(tx_list) :
                                 tx_list[i] = <<TxHash(Transactions[t]), t>>}) = 1
            /\ \A i \in 1..Len(tx_list) :
                 /\ tx_list[i][2] \in present
                 /\ tx_list[i][1] = TxHash(Transactions[tx_list[i][2]])

\* A call over the three transactions stored, with two threads and three
\* tasks: more tasks than threads.
C26_Witness ==
    /\ HashesReturned
    /\ lastOp.lo = 0
    /\ lastOp.hi = 3
    /\ Cardinality(DOMAIN Transactions) = 3
    /\ lastOp.info[1].threads = 2
    /\ lastOp.info[1].tasks = 3
    /\ Len(lastOp.info[1].tx_list) = 3

\* ----------------------------------------- sender and transaction counts
\* get_take_block_transaction_range has read the transactions of a range.
TransactionRangeRead == lastOp.op = "block_transaction_range"

\* SenderRecoveryError is returned only when a transaction read has a
\* signature that does not recover.
RecoveryErrorOnlyOnBadSignature ==
    lastOp.result = "SenderRecoveryError" => lastOp.info[1].bad_signature

\* With fewer sender rows than transactions and every transaction the block
\* bodies count read: SenderRecoveryError when a transaction without a sender
\* row has a signature that does not recover, and otherwise Ok with every
\* transaction paired with its signer.
MissingSendersRecovered ==
    (/\ lastOp.info[1].senders < lastOp.info[1].transactions
     /\ lastOp.info[1].transactions = lastOp.info[1].counted) =>
        IF lastOp.info[1].bad_without_sender
          THEN lastOp.result = "SenderRecoveryError"
          ELSE /\ lastOp.result = "Ok"
               /\ \A b \in 1..Len(lastOp.info[1].block_tx) :
                    \A i \in 1..Len(lastOp.info[1].block_tx[b][2]) :
                        lastOp.info[1].block_tx[b][2][i][2]
                          = Signer(lastOp.info[1].block_tx[b][2][i][1])

DependsOnDone == lastOp.op = "depends_on"

\* C28: read/write-set dependency.  a.depends_on(b) is true if and only if
\* some key of a.read_set is in b.write_set, or a.read_set contains a slot of
\* an address whose Account(address, Storage) key is in b.write_set; it
\* depends only on a's read set and b's write set, so a set never depends on
\* a set whose write set is empty, itself included when it only reads or only
\* writes.
C28_DependsOn ==
    DependsOnDone =>
        LET a == lastOp.info[1].a
            b == lastOp.info[1].b
            destroyed == {k[2] : k \in {w \in b.write_set : w[1] = "Account" /\ w[3] = "Storage"}}
            slots_read == {k[2] : k \in {r \in a.read_set : r[1] = "Slot"}}
        IN  /\ lastOp.info[1].depends
                 <=> (a.read_set \cap b.write_set /= {} \/ slots_read \cap destroyed /= {})
            /\ lastOp.info[1].depends
                 = depends_on([read_set |-> a.read_set, write_set |-> {}],
                              [read_set |-> {}, write_set |-> b.write_set])
            /\ b.write_set = {} => ~lastOp.info[1].depends
            /\ (a.read_set = {} \/ a.write_set = {}) => ~lastOp.info[1].self

\* A set that reads a slot depends on a set that destroys the storage of the
\* slot's account and writes no key the first one reads; the second does not
\* depend on the first, and neither depends on itself.
C28_Witness ==
    /\ DependsOnDone
    /\ lastOp.info[1].a = [read_set |-> {<<"Slot", 1, 0>>}, write_set |-> {}]
    /\ lastOp.info[1].b = [read_set |-> {}, write_set |-> {<<"Account", 1, "Storage">>}]
    /\ lastOp.info[1].depends
    /\ ~lastOp.info[1].reverse
    /\ ~lastOp.info[1].self

\* ------------------------------------------------------- log conversion
LogConverted == lastOp.op = "convert_log"

BundleRanges ==
    {r \in ObservedRanges :
        r[1] <= r[2] /\ unwind_or_peek_state(DB, r[1], r[2], FALSE).result = "Ok"}

\* The earliest block of lo..=hi with a row of `key` (an address, or an
\* address and a slot) in the changeset table t.
EarliestBlock(t, lo, hi, key) ==
    Min({k[1] : k \in {j \in ChangeSetKeys(t, lo, hi) : Tail(j) = key}})

BundleReconstructed(lo, hi, UNWIND) ==
    LET bundle == unwind_or_peek_state(DB, lo, hi, UNWIND).bundle
        account_rows == ChangeSetKeys(AccountChangeSets, lo, hi)
        storage_rows == ChangeSetKeys(StorageChangeSets, lo, hi)
    IN  /\ DOMAIN bundle.state = {k[2] : k \in account_rows \cup storage_rows}
        /\ \A k \in account_rows :
             /\ bundle.state[k[2]].old
                  = AccountChangeSets[<<EarliestBlock(AccountChangeSets, lo, hi, <<k[2]>>),
                                        k[2]>>]
             /\ bundle.state[k[2]].new = Get(PlainAccountState, k[2])
        /\ \A k \in storage_rows :
             /\ DOMAIN bundle.state[k[2]].storage
                  = {j[3] : j \in {i \in storage_rows : i[2] = k[2]}}
             /\ bundle.state[k[2]].storage[k[3]]
                  = <<StorageChangeSets[<<EarliestBlock(StorageChangeSets, lo, hi,
                                                        <<k[2], k[3]>>), k[2], k[3]>>],
                      PlainStorageValue(PlainStorageState, k[2], k[3])>>
             /\ k[2] \notin {j[2] : j \in account_rows} =>
                  /\ bundle.state[k[2]].old = Get(PlainAccountState, k[2])
                  /\ bundle.state[k[2]].new = Get(PlainAccountState, k[2])
        /\ DOMAIN bundle.reverts = {<<k[1], k[2]>> : k \in account_rows \cup storage_rows}
        /\ \A b \in DOMAIN bundle.reverts :
             /\ bundle.reverts[b].account
                  = IF b \in account_rows THEN Some(AccountChangeSets[b]) ELSE None
             /\ {bundle.reverts[b].storage[i] : i \in DOMAIN bundle.reverts[b].storage}
                  = {<<k[3], StorageChangeSets[k]>> :
                        k \in {j \in storage_rows : <<j[1], j[2]>> = b}}
             /\ Len(bundle.reverts[b].storage)
                  = Cardinality({j \in storage_rows : <<j[1], j[2]>> = b})

\* C30: bundle reconstruction.  For every range and every address (and every
\* address and slot) that appears in the changesets of the range, the bundle
\* state built by unwind_or_peek_state has as old value the changeset value
\* of the earliest block of the range in which the key appears and as new
\* value the value now in the plain state (zero or absent without a plain
\* row); the reverts of a block and an address are exactly the changeset
\* entries of that block; an address that is only in the storage changesets
\* has its present plain account as old and as new value.
C30_BundleReconstruction ==
    \A r \in BundleRanges : \A UNWIND \in BOOLEAN :
        BundleReconstructed(r[1], r[2], UNWIND)

\* A database and a range where an account has two changeset rows with
\* different old values, and an address with a plain account is only in the
\* storage changesets of a shorter range.
C30_Witness ==
    \E r \in BundleRanges, q \in BundleRanges, a \in Addresses :
        /\ \E j, k \in ChangeSetKeys(AccountChangeSets, r[1], r[2]) :
             /\ j[2] = a /\ k[2] = a /\ j[1] < k[1]
             /\ AccountChangeSets[j] /= AccountChangeSets[k]
             /\ unwind_or_peek_state(DB, r[1], r[2], FALSE).bundle.state[a].old
                  = AccountChangeSets[j]
        /\ \E k \in ChangeSetKeys(StorageChangeSets, q[1], q[2]) :
             /\ k[2] = a
             /\ ChangeSetKeys(AccountChangeSets, q[1], q[2]) = {}
             /\ a \in DOMAIN PlainAccountState
             /\ StorageChangeSets[k] /= PlainStorageValue(PlainStorageState, k[2], k[3])

\* ------------------------------------------------- receipt partitioning
\* The receipts stored under the tx numbers of a block, in tx order.
ReceiptsOfBlock(indices) ==
    LET keys == SortedSeq({t \in DOMAIN Receipts :
                              /\ indices.first_tx_num <= t
                              /\ t < indices.first_tx_num + indices.tx_count})
    IN  [i \in 1..Len(keys) |-> Some(Receipts[keys[i]])]

\* C31: receipt partitioning.  unwind_or_peek_state returns one receipt
\* vector per block of the range, in block order, and the vector of a block
\* holds exactly the receipts stored under the tx numbers of the block, in
\* tx order, also when blocks of the range are empty or Receipts rows of the
\* range are missing.
C31_ReceiptPartitioning ==
    \A r \in BundleRanges :
        LET blocks == SortedSeq(RangeKeys(BlockBodyIndices, r[1], r[2]))
            receipts == unwind_or_peek_state(DB, r[1], r[2], FALSE).bundle.receipts
        IN  /\ Len(receipts) = Len(blocks)
            /\ \A i \in 1..Len(blocks) :
                 receipts[i] = ReceiptsOfBlock(BlockBodyIndices[blocks[i]])

\* --------------------------------------------------- destroyed accounts
\* The account an address had before its earliest change in lo..=hi.
AccountBeforeRange(lo, hi, address) ==
    AccountChangeSets[<<EarliestBlock(AccountChangeSets, lo, hi, <<address>>), address>>]

DestroyedAccountsUnwound(lo, hi) ==
    LET changed == {k[2] : k \in ChangeSetKeys(AccountChangeSets, lo, hi)}
        created == {a \in changed : IsNone(AccountBeforeRange(lo, hi, a))}
        taken == get_or_take_block_and_execution_range(DB, lo, hi, TRUE)
    IN  /\ destroyed_accounts(unwind_account_hashing(DB, lo, hi).hashed_accounts)
              = {keccak256(a) : a \in created}
        /\ taken.result = "Ok" =>
             \A a \in changed :
                 /\ Get(taken.db.HashedAccounts, keccak256(a)) = AccountBeforeRange(lo, hi, a)
                 /\ Get(taken.db.PlainAccountState, a) = AccountBeforeRange(lo, hi, a)

\* C32: destroyed accounts on unwind.  In a take of a range, the destroyed
\* accounts handed to the root computation are exactly the hashes of the
\* addresses changed in the range that had no account before their earliest
\* change in the range; those accounts are removed from HashedAccounts and
\* PlainAccountState, and the accounts that existed before the range get the
\* value they had before it.
C32_DestroyedAccounts ==
    \A r \in ObservedRanges : r[1] <= r[2] => DestroyedAccountsUnwound(r[1], r[2])

\* A database where the take of one range succeeds, destroys an account
\* created in the range that a later block of the range deleted again, and
\* the take of a shorter range succeeds and restores the account.
C32_Witness ==
    \E r \in ObservedRanges, q \in ObservedRanges, a \in Addresses :
        /\ r[1] < q[1] /\ q[1] <= q[2] /\ q[2] = r[2]
        /\ get_or_take_block_and_execution_range(DB, r[1], r[2], TRUE).result = "Ok"
        /\ get_or_take_block_and_execution_range(DB, q[1], q[2], TRUE).result = "Ok"
        /\ <<r[1], a>> \in DOMAIN AccountChangeSets
        /\ <<q[1], a>> \in DOMAIN AccountChangeSets
        /\ destroyed_accounts(unwind_account_hashing(DB, r[1], r[2]).hashed_accounts)
              = {keccak256(a)}
        /\ destroyed_accounts(unwind_account_hashing(DB, q[1], q[2]).hashed_accounts) = {}
        /\ IsSome(AccountBeforeRange(q[1], q[2], a))
        /\ a \notin DOMAIN PlainAccountState

\* ------------------------------------------------------ pruning results
ReceiptsPruned == lastOp.op = "prune" /\ IsSome(lastOp.info)

\* C33: prune_table_with_range returns the number of rows pruned.  The first
\* component of its result is the number of rows it deleted from the table
\* (and the number of limiter increments), for every skip filter; its second
\* component is true only if no row of the range that the skip filter does
\* not skip remains in the table.
C33_PruneRangeCount ==
    ReceiptsPruned =>
        /\ lastOp.info[1].deleted_entries = lastOp.info[1].rows_deleted
        /\ lastOp.info[1].deleted_entries = lastOp.info[1].counted
        /\ lastOp.info[1].done =>
             RangeKeys(Receipts, lastOp.lo, lastOp.hi) \subseteq lastOp.info[1].skipped

\* ------------------------------------------------ worker-pool termination
\* C34: worker-pool termination.  Under fair scheduling of the spawned
\* workers, transaction_hashes_by_range returns for every tx range: the
\* caller leaves the receive loop of a channel once the worker of the chunk
\* has sent its results and dropped its sender; and when the caller returns
\* at the first error and drops the receivers, every worker still finishes
\* its chunk and exits, without blocking and without a panic.
C34_WorkerPoolTermination ==
    /\ (lastOp.result = "Running") ~> (lastOp.result /= "Running")
    /\ hashing.active ~> ~hashing.active

\* The caller has returned the read error of the first chunk while the worker
\* of a later chunk has not yet sent anything.
C34_Witness ==
    /\ lastOp.op = "transaction_hashes_by_range"
    /\ lastOp.result = "DatabaseError"
    /\ hashing.active
    /\ ~hashing.receivers
    /\ \E c \in 1..Len(hashing.chunks) : hashing.chunks[c] /= <<>> /\ hashing.open[c]

\* ------------------------------------------------------- take and peek
\* C35: take returns what peek returns.  For every database state and range
\* on which get_or_take_block_and_execution_range::<true> succeeds, the Chain
\* it returns (blocks with senders, bundle state, reverts, receipts) equals
\* the Chain get_or_take_block_and_execution_range::<false> returns on the
\* state before the take.
C35_TakeReturnsPeek ==
    \A r \in ObservedRanges :
        LET taken == get_or_take_block_and_execution_range(DB, r[1], r[2], TRUE)
            peeked == get_or_take_block_and_execution_range(DB, r[1], r[2], FALSE)
        IN  taken.result = "Ok" =>
                /\ peeked.result = "Ok"
                /\ taken.chain = peeked.chain

\* A database where the take of blocks 1..=2 succeeds and returns two blocks
\* with their transactions and senders, a bundle state and reverts with an
\* account and a slot, and receipts, and changes the database.
C35_Witness ==
    LET taken == get_or_take_block_and_execution_range(DB, 1, 2, TRUE)
    IN  /\ taken.result = "Ok"
        /\ taken.db /= DB
        /\ Len(taken.chain.blocks) = 2
        /\ taken.chain.blocks[1].body /= <<>>
        /\ taken.chain.blocks[1].senders /= <<>>
        /\ taken.chain.receipts[2] /= <<>>
        /\ ChangeSetKeys(AccountChangeSets, 1, 2) /= {}
        /\ ChangeSetKeys(StorageChangeSets, 1, 2) /= {}
        /\ \E a \in DOMAIN taken.chain.state : DOMAIN taken.chain.state[a].storage /= {}

\* C36: completion flag of prune_table_with_iterator.  Whenever it returns
\* done = true, every key of the input has been looked up and deleted if it
\* was present, so that no input key remains in the table; when the limiter
\* stops the run before every key is processed it returns done = false; and
\* the number it returns is the number of rows deleted.
C36_PruneIteratorDone ==
    lastOp.op = "prune_iterator" =>
        /\ lastOp.info[1].done => lastOp.info[1].keys \cap DOMAIN Receipts = {}
        /\ lastOp.info[1].looked_up < Cardinality(lastOp.info[1].keys) =>
              ~lastOp.info[1].done
        /\ lastOp.info[1].deleted_entries = lastOp.info[1].rows_deleted

\* ------------------------------------------------- ranges without blocks
\* C37: no crash on ranges without blocks.  For every non-empty block range,
\* also one that lies partly or wholly beyond the stored tip so that
\* BlockBodyIndices has no row in it, unwind_or_peek_state and
\* get_or_take_block_and_execution_range return Ok or a typed error: the
\* first() and last() of the block bodies are never taken of an empty list.
C37_NoPanicWithoutBlocks ==
    \A r \in ObservedRanges : \A take \in BOOLEAN :
        r[1] <= r[2] =>
            /\ unwind_or_peek_state(DB, r[1], r[2], take).result /= "Panic"
            /\ get_or_take_block_and_execution_range(DB, r[1], r[2], take).result /= "Panic"

\* ---------------------------------------------------- shards never empty
NoEmptyShard(table) == \A k \in DOMAIN table : table[k] /= <<>>

\* The history unwinds of lo..=hi find no empty shard, meet no existing row
\* when they reinsert a boundary shard, and leave no empty shard.
HistoryUnwindSound(lo, hi) ==
    LET accounts == unwind_account_history_indices(DB, lo, hi)
        storages == unwind_storage_history_indices(DB, lo, hi)
    IN  /\ accounts.result = "Ok"
        /\ storages.result = "Ok"
        /\ NoEmptyShard(accounts.db.AccountsHistory)
        /\ NoEmptyShard(storages.db.StoragesHistory)

\* C38: shards are never empty and reinsertion never conflicts.  In every
\* state reached by append_history_index and the history unwinds (several
\* unwind calls for one key within a range included), no stored shard has an
\* empty block list, so that unwind_history_shards never meets one, and the
\* caller's insert of the boundary shard under u64::MAX never meets an
\* existing row with that key.
C38_ShardsNeverEmpty ==
    /\ NoEmptyShard(AccountsHistory)
    /\ NoEmptyShard(StoragesHistory)
    /\ lastOp.result \notin {"Panic", "KeyExists"}
    /\ \A lo \in 0..MaxHistoryBlock : HistoryUnwindSound(lo, MaxHistoryBlock)

\* Account 1 has a closed and an open shard and changed in two blocks of a
\* range whose unwind cuts into the closed shard and reinserts what is left of
\* it under u64::MAX; a take has run before.
C38_Witness ==
    \E lo \in 1..MaxHistoryBlock :
        LET accounts == unwind_account_history_indices(DB, lo, MaxHistoryBlock)
        IN  /\ Len(ShardKeysOf(AccountsHistory, <<1>>)) >= 2
            /\ Cardinality({k \in ChangeSetKeys(AccountChangeSets, lo, MaxHistoryBlock) :
                               k[2] = 1}) >= 2
            /\ lo <= ShardKeysOf(AccountsHistory, <<1>>)[1][2]
            /\ accounts.result = "Ok"
            /\ ShardKeysOf(accounts.db.AccountsHistory, <<1>>) = <<ShardedKeyLast(<<1>>)>>
            /\ HistoryTakeDone

\* -------------------------------------------------- ordering inside a take
\* The steps of get_or_take_block_and_execution_range::<true>(lo..=hi) on the
\* database, each on the result of the step before: the changeset rows and
\* the block body indices of the range are in place after the unwind of the
\* hashes and of the history indices and after the blocks are taken, the
\* block body indices also after the state is unwound, and nothing of the
\* range is left at the end.
TakeOrdered(lo, hi) ==
    LET prologue == UnwindHashesAndHistory(DB, lo, hi)
        blocks == get_take_block_range(prologue.db, lo, hi, TRUE)
        state == unwind_or_peek_state(blocks.db, lo, hi, TRUE)
        taken == get_or_take_block_and_execution_range(DB, lo, hi, TRUE)
    IN  taken.result = "Ok" =>
            /\ prologue.db.AccountChangeSets = AccountChangeSets
            /\ prologue.db.StorageChangeSets = StorageChangeSets
            /\ prologue.db.BlockBodyIndices = BlockBodyIndices
            /\ blocks.db.AccountChangeSets = AccountChangeSets
            /\ blocks.db.StorageChangeSets = StorageChangeSets
            /\ blocks.db.BlockBodyIndices = BlockBodyIndices
            /\ state.db.BlockBodyIndices = BlockBodyIndices
            /\ ChangeSetKeys(state.db.AccountChangeSets, lo, hi) = {}
            /\ ChangeSetKeys(state.db.StorageChangeSets, lo, hi) = {}
            /\ ChangeSetKeys(taken.db.AccountChangeSets, lo, hi) = {}
            /\ ChangeSetKeys(taken.db.StorageChangeSets, lo, hi) = {}
            /\ RangeKeys(taken.db.BlockBodyIndices, lo, hi) = {}

\* C39: ordering inside a take.  In get_or_take_block_and_execution_range
\* with TAKE, the AccountChangeSets and StorageChangeSets rows of the range
\* are still present when the hashing unwind and the history-index unwind
\* read them, and the BlockBodyIndices rows of the range are still present
\* when blocks, transactions and receipts are assembled; these rows are
\* deleted only afterwards, and on Ok none of them remains.
C39_TakeOrdering ==
    \A r \in ObservedRanges : r[1] <= r[2] => TakeOrdered(r[1], r[2])

\* A take of two blocks that succeeds on a database with rows of the range in
\* both changeset tables and in BlockBodyIndices, right after their append.
C39_Witness ==
    \E r \in ObservedRanges :
        /\ r[1] < r[2]
        /\ get_or_take_block_and_execution_range(DB, r[1], r[2], TRUE).result = "Ok"
        /\ ChangeSetKeys(AccountChangeSets, r[1], r[2]) /= {}
        /\ ChangeSetKeys(StorageChangeSets, r[1], r[2]) /= {}
        /\ Cardinality(RangeKeys(BlockBodyIndices, r[1], r[2])) = 2
        /\ DOMAIN AccountsHistory /= {}
        /\ DOMAIN StoragesHistory /= {}
        /\ lastOp.op = "append"

\* ------------------------------------------------------ sender alignment
\* The senders of the transactions of blocks lo..=hi after the recovery, for
\* stored senders that are a strict subset of the transactions read and
\* signatures that recover: as many as the transactions, strictly ascending
\* by tx number, each with the tx number of the transaction at its position
\* and with the stored sender or the signer of that transaction; and the
\* merge raises no MismatchOfTransactionAndSenderId.
SendersAligned(lo, hi) ==
    LET first_transaction == first_tx_num(BlockBodyIndices[lo])
        last_transaction == last_tx_num(BlockBodyIndices[hi])
        transactions == get_or_take(Transactions, first_transaction, last_transaction,
                                    FALSE).items
        senders == get_or_take(TransactionSenders, first_transaction, last_transaction,
                               FALSE).items
        missing == MissingSenders(transactions, senders, 1)
        recovered == recover_signers([i \in 1..Len(missing) |-> missing[i][3]])
        fixed == InsertRecovered(senders, missing, Unwrap(recovered))
    IN  (/\ first_transaction <= last_transaction
         /\ Len(senders) < Len(transactions)
         /\ \A i \in 1..Len(senders) :
                \E j \in 1..Len(transactions) : transactions[j][1] = senders[i][1]
         /\ IsSome(recovered)) =>
            /\ ~fixed.panic
            /\ Len(fixed.senders) = Len(transactions)
            /\ \A i \in 1..(Len(fixed.senders) - 1) :
                 fixed.senders[i][1] < fixed.senders[i + 1][1]
            /\ \A i \in 1..Len(transactions) :
                 /\ fixed.senders[i][1] = transactions[i][1]
                 /\ fixed.senders[i][2]
                      = IF transactions[i][1] \in DOMAIN TransactionSenders
                          THEN TransactionSenders[transactions[i][1]]
                          ELSE Signer(transactions[i][2])
            /\ get_take_block_transaction_range(DB, lo, hi, FALSE).result
                  /= "MismatchOfTransactionAndSenderId"

\* C40: sender alignment after recovery.  In
\* get_take_block_transaction_range, when the stored senders are a strict
\* subset of the transactions of the range, whatever tx numbers are missing,
\* the senders list after the insertion of the recovered senders is as long
\* as the transactions list, strictly ascending by tx number, and pairs every
\* transaction with the sender entry of its tx number, so that the merge
\* raises no MismatchOfTransactionAndSenderId.
C40_SenderAlignment ==
    \A lo \in DOMAIN BlockBodyIndices, hi \in DOMAIN BlockBodyIndices :
        lo <= hi => SendersAligned(lo, hi)

\* Three transactions read, of which only the middle one has a stored
\* sender; the call has returned the three with their senders.
C40_Witness ==
    /\ TransactionRangeRead
    /\ lastOp.result = "Ok"
    /\ lastOp.info[1].transactions = 3
    /\ lastOp.info[1].senders = 1
    /\ lastOp.hi = lastOp.lo + 2
    /\ first_tx_num(BlockBodyIndices[lastOp.lo]) + 1 \in DOMAIN TransactionSenders
    /\ Len(lastOp.info[1].block_tx) = 3

=============================================================================
